---- MODULE Spec2Model ----
(***************************************************************************)
(* Verification model of usc_streaminginfos (package usc_kommentatoren and *)
(* the scripts directory).  Every subsystem keeps its state in one record  *)
(* variable whose fields carry the names of the locals of the function it  *)
(* models; a specification drives one subsystem and leaves the others idle.*)
(*                                                                         *)
(* Text is modelled as a sequence of one-character strings so that the     *)
(* normalisations of the code are computed character by character.         *)
(* Characters outside ASCII are written with their HTML entity name:       *)
(* "uuml" is u-umlaut, "szlig" is sharp s, "ndash" the en dash.            *)
(***************************************************************************)
EXTENDS Integers, Sequences, FiniteSets, TLC

VARIABLES find, fetch, mvp, lineup, pdf, cmp, run, stopwatch

vars == <<find, fetch, mvp, lineup, pdf, cmp, run, stopwatch>>

\* None for text and numbers; an optional record is <<>> (None) or <<r>>.
NULL == "None"

None == <<>>

Some(x) == <<x>>

Idle == [pc |-> "idle"]

(***************************************************************************)
(* Generic sequence helpers                                                *)
(***************************************************************************)
Min2(a, b) == IF a <= b THEN a ELSE b

Max2(a, b) == IF a >= b THEN a ELSE b

\* Python slice s[:n] for n >= 0 and for n < 0 (drop the last -n elements).
Slice(s, n) ==
    IF n >= 0 THEN SubSeq(s, 1, Min2(n, Len(s)))
    ELSE SubSeq(s, 1, Max2(Len(s) + n, 0))

RECURSIVE Concat(_)
Concat(ss) == IF ss = <<>> THEN <<>> ELSE Head(ss) \o Concat(Tail(ss))

SeqsUpTo(S, n) == UNION {[1..k -> S] : k \in 0..n}

Range(s) == {s[i] : i \in 1..Len(s)}

\* pat occurs in s at position i
MatchAt(s, pat, i) ==
    /\ i + Len(pat) - 1 <= Len(s)
    /\ \A k \in 1..Len(pat) : s[i + k - 1] = pat[k]

\* Python "pat in s"
Contains(s, pat) == \E i \in 1..(Len(s) + 1) : MatchAt(s, pat, i)

\* Python s.replace(pat, rep): leftmost non-overlapping occurrences
RECURSIVE ReplaceFrom(_, _, _, _)
ReplaceFrom(s, pat, rep, i) ==
    IF i > Len(s) THEN <<>>
    ELSE IF MatchAt(s, pat, i) THEN rep \o ReplaceFrom(s, pat, rep, i + Len(pat))
    ELSE <<s[i]>> \o ReplaceFrom(s, pat, rep, i + 1)

Replace(s, pat, rep) == ReplaceFrom(s, pat, rep, 1)

\* Stable sort on an integer key, as list.sort(key=...) / sort(key=..., reverse=True).
\* The sort works on the positions 1..Len(keys) and returns them in sorted order.
RECURSIVE InsertAsc(_, _, _)
InsertAsc(sorted, i, keys) ==
    IF sorted = <<>> THEN <<i>>
    ELSE IF keys[Head(sorted)] <= keys[i]
         THEN <<Head(sorted)>> \o InsertAsc(Tail(sorted), i, keys)
         ELSE <<i>> \o sorted

RECURSIVE InsertDesc(_, _, _)
InsertDesc(sorted, i, keys) ==
    IF sorted = <<>> THEN <<i>>
    ELSE IF keys[Head(sorted)] >= keys[i]
         THEN <<Head(sorted)>> \o InsertDesc(Tail(sorted), i, keys)
         ELSE <<i>> \o sorted

RECURSIVE OrderAsc(_, _)
OrderAsc(keys, n) == IF n = 0 THEN <<>> ELSE InsertAsc(OrderAsc(keys, n - 1), n, keys)

RECURSIVE OrderDesc(_, _)
OrderDesc(keys, n) == IF n = 0 THEN <<>> ELSE InsertDesc(OrderDesc(keys, n - 1), n, keys)

SortAsc(s, key(_)) ==
    LET order == OrderAsc([i \in 1..Len(s) |-> key(s[i])], Len(s))
    IN  [i \in 1..Len(s) |-> s[order[i]]]

SortDesc(s, key(_)) ==
    LET order == OrderDesc([i \in 1..Len(s) |-> key(s[i])], Len(s))
    IN  [i \in 1..Len(s) |-> s[order[i]]]

\* [x for x in s if keep(x)]
RECURSIVE FilterFlags(_, _, _)
FilterFlags(s, flags, i) ==
    IF i > Len(s) THEN <<>>
    ELSE (IF flags[i] THEN <<s[i]>> ELSE <<>>) \o FilterFlags(s, flags, i + 1)

Filter(s, keep(_)) == FilterFlags(s, [i \in 1..Len(s) |-> keep(s[i])], 1)

(***************************************************************************)
(* Character classes and str methods                                       *)
(***************************************************************************)
UpperChars == <<"A", "B", "C", "D", "E", "F", "G", "H", "I", "J", "K", "L", "M",
                "N", "O", "P", "Q", "R", "S", "T", "U", "V", "W", "X", "Y", "Z",
                "Auml", "Ouml", "Uuml">>

LowerChars == <<"a", "b", "c", "d", "e", "f", "g", "h", "i", "j", "k", "l", "m",
                "n", "o", "p", "q", "r", "s", "t", "u", "v", "w", "x", "y", "z",
                "auml", "ouml", "uuml">>

Digits == <<"0", "1", "2", "3", "4", "5", "6", "7", "8", "9">>

DigitChars == Range(Digits)

IsDigit(c) == c \in DigitChars

IsAsciiLower(c) == \E i \in 1..26 : LowerChars[i] = c

IsSpace(c) == c \in {" ", "\n", "\t", "nbsp"}

\* str.lower() on one character
LowerChar(c) ==
    IF \E i \in 1..Len(UpperChars) : UpperChars[i] = c
    THEN LowerChars[CHOOSE i \in 1..Len(UpperChars) : UpperChars[i] = c]
    ELSE c

Lower(s) == [i \in 1..Len(s) |-> LowerChar(s[i])]

\* str.strip()
RECURSIVE LStrip(_)
LStrip(s) == IF s # <<>> /\ IsSpace(Head(s)) THEN LStrip(Tail(s)) ELSE s

RECURSIVE RStrip(_)
RStrip(s) ==
    IF s # <<>> /\ IsSpace(s[Len(s)]) THEN RStrip(SubSeq(s, 1, Len(s) - 1)) ELSE s

Strip(s) == RStrip(LStrip(s))

\* re.sub(r"\s+", " ", s)
RECURSIVE CollapseSpaces(_)
CollapseSpaces(s) ==
    IF s = <<>> THEN <<>>
    ELSE IF IsSpace(Head(s))
         THEN <<" ">> \o CollapseSpaces(LStrip(s))
         ELSE <<Head(s)>> \o CollapseSpaces(Tail(s))

\* str.split(): the whitespace-separated words
RECURSIVE SplitWords(_, _)
SplitWords(s, word) ==
    IF s = <<>> THEN (IF word = <<>> THEN <<>> ELSE <<word>>)
    ELSE IF IsSpace(Head(s))
         THEN (IF word = <<>> THEN <<>> ELSE <<word>>) \o SplitWords(Tail(s), <<>>)
         ELSE SplitWords(Tail(s), Append(word, Head(s)))

Split(s) == SplitWords(s, <<>>)

(***************************************************************************)
(* report.normalize_name / is_usc / is_same_team                           *)
(***************************************************************************)
\* the replacements dict: every source is one character
Transliterate(c) ==
    CASE c = "auml" -> <<"a", "e">>
      [] c = "ouml" -> <<"o", "e">>
      [] c = "uuml" -> <<"u", "e">>
      [] c = "szlig" -> <<"s", "s">>
      [] c \in {"aacute", "agrave", "acirc"} -> <<"a">>
      [] c \in {"eacute", "egrave", "ecirc"} -> <<"e">>
      [] c \in {"iacute", "igrave", "icirc"} -> <<"i">>
      [] c \in {"oacute", "ograve", "ocirc"} -> <<"o">>
      [] c \in {"uacute", "ugrave", "ucirc"} -> <<"u">>
      [] OTHER -> <<c>>

\* re.sub(r"[^a-z0-9]+", " ", s): a run of other characters becomes one space
RECURSIVE NonAlnumToSpace(_, _)
NonAlnumToSpace(s, inRun) ==
    IF s = <<>> THEN <<>>
    ELSE IF IsAsciiLower(Head(s)) \/ IsDigit(Head(s))
         THEN <<Head(s)>> \o NonAlnumToSpace(Tail(s), FALSE)
         ELSE (IF inRun THEN <<>> ELSE <<" ">>) \o NonAlnumToSpace(Tail(s), TRUE)

normalize_name_text(value) ==
    LET lowered == Lower(value)
        replaced == Concat([i \in 1..Len(lowered) |-> Transliterate(lowered[i])])
        m1 == Replace(replaced, <<"m", "u", "e", "n", "s", "t", "e", "r">>,
                      <<"m", "u", "n", "s", "t", "e", "r">>)
        m2 == Replace(m1, <<"m", "n", "s", "t", "e", "r">>,
                      <<"m", "u", "n", "s", "t", "e", "r">>)
    IN  Strip(CollapseSpaces(NonAlnumToSpace(m2, FALSE)))

(***************************************************************************)
(* Team names used as inputs                                               *)
(***************************************************************************)
T_USC == <<"U", "S", "C", " ", "M", "uuml", "n", "s", "t", "e", "r">>

T_USC_ASCII == <<"U", "S", "C", " ", "M", "u", "e", "n", "s", "t", "e", "r">>

T_USC_BROKEN == <<"u", "s", "c", " ", " ", "M", "n", "s", "t", "e", "r">>

T_DRESDEN == <<"D", "r", "e", "s", "d", "n", "e", "r", " ", "S", "C">>

T_DRESDEN_LOWER == <<"d", "r", "e", "s", "d", "n", "e", "r", "-", "s", "c">>

T_WIESBADEN == <<"V", "C", " ", "W", "i", "e", "s", "b", "a", "d", "e", "n">>

T_USC_OTHER == <<"U", "S", "C", " ", "F", "r", "e", "i", "b", "u", "r", "g">>

TeamNames ==
    {T_USC, T_USC_ASCII, T_USC_BROKEN, T_DRESDEN, T_DRESDEN_LOWER, T_WIESBADEN,
     T_USC_OTHER, <<>>}

\* normalize_name_text tabulated once for the names above
NormalizedTeamNames == [n \in TeamNames |-> normalize_name_text(n)]

normalize_name(value) ==
    IF value \in TeamNames THEN NormalizedTeamNames[value] ELSE normalize_name_text(value)

is_usc(name) ==
    LET normalized == normalize_name(name)
    IN  /\ Contains(normalized, <<"u", "s", "c">>)
        /\ Contains(normalized, <<"m", "u", "n", "s", "t", "e", "r">>)

is_same_team(a, b) == normalize_name(a) = normalize_name(b)

team_in_match(team_name, match) ==
    is_same_team(team_name, match.home_team) \/ is_same_team(team_name, match.away_team)

\* Match.is_finished
is_finished(match) == match.result # NULL

USC_CANONICAL_NAME == T_USC

(***************************************************************************)
(* report.find_next_usc_home_match / find_last_matches_for_team            *)
(***************************************************************************)
MaxMatches == 3

MaxLimit == 2

\* The pairings a schedule row is drawn from: home team, away team, host.
Fixtures ==
    { [home_team |-> T_USC, away_team |-> T_DRESDEN, host |-> T_USC],
      [home_team |-> T_DRESDEN, away_team |-> T_USC_ASCII, host |-> T_DRESDEN],
      [home_team |-> T_WIESBADEN, away_team |-> T_DRESDEN_LOWER, host |-> T_USC_BROKEN],
      [home_team |-> T_USC_OTHER, away_team |-> T_WIESBADEN, host |-> T_USC_OTHER] }

\* n kickoffs give every relative order of n matches; one more instant lies after all.
Kickoffs == 1..MaxMatches

References == 1..(MaxMatches + 1)

MakeMatch(f, k, r) ==
    [kickoff |-> k, home_team |-> f.home_team, away_team |-> f.away_team,
     host |-> f.host, result |-> r]

UpcomingMatches == {MakeMatch(f, k, NULL) : f \in Fixtures, k \in Kickoffs}

PlayedMatches ==
    {MakeMatch(f, k, r) : f \in Fixtures \ {[home_team |-> T_USC_OTHER,
                                             away_team |-> T_WIESBADEN,
                                             host |-> T_USC_OTHER]},
                          k \in Kickoffs, r \in {NULL, "3:1"}}

Kickoff(match) == match.kickoff

\* faulty variant: the future home games are not sorted by kickoff
find_next_unsorted(matches, reference) ==
    LET IsFutureHome(match) == is_usc(match.host) /\ match.kickoff >= reference
        future_home_games == Filter(matches, IsFutureHome)
    IN  IF future_home_games # <<>> THEN Some(future_home_games[1]) ELSE None

find_next_usc_home_match(matches, reference) ==
    LET now == reference
        IsFutureHome(match) == is_usc(match.host) /\ match.kickoff >= now
        future_home_games == SortAsc(Filter(matches, IsFutureHome), Kickoff)
    IN  IF future_home_games # <<>> THEN Some(future_home_games[1]) ELSE None

find_last_matches_for_team(matches, team_name, limit, reference) ==
    LET now == reference
        IsRelevant(match) ==
            is_finished(match) /\ match.kickoff < now /\ team_in_match(team_name, match)
        relevant == SortDesc(Filter(matches, IsRelevant), Kickoff)
    IN  Slice(relevant, limit)

FindIdle == find = Idle

InitNext ==
    /\ find \in {[pc |-> "ready", matches |-> m, reference |-> 0, next_home |-> None]
                   : m \in SeqsUpTo(UpcomingMatches, MaxMatches)}
    /\ fetch = Idle /\ mvp = Idle /\ lineup = Idle /\ pdf = Idle /\ cmp = Idle
    /\ run = Idle /\ stopwatch = Idle

FindNextUscHomeMatch ==
    /\ find.pc = "ready"
    /\ \E reference \in References :
          find' = [find EXCEPT !.pc = "returned",
                               !.reference = reference,
                               !.next_home =
                                   find_next_usc_home_match(find.matches, reference)]
    /\ UNCHANGED <<fetch, mvp, lineup, pdf, cmp, run, stopwatch>>

NextNext == FindNextUscHomeMatch

SpecNext == InitNext /\ [][NextNext]_vars

\* C2: find_next_usc_home_match returns the USC-hosted match of earliest kickoff
\* among those with kickoff >= reference, whatever the order of the list, and
\* returns None exactly when there is no such match; a match that kicked off
\* before the reference is never returned.
IsFutureUscHome(match, reference) == is_usc(match.host) /\ match.kickoff >= reference

C2_NextHomeIsEarliest ==
    find.pc = "returned" =>
        LET candidates == {m \in Range(find.matches) : IsFutureUscHome(m, find.reference)}
        IN  /\ (find.next_home = None) <=> (candidates = {})
            /\ find.next_home # None =>
                  /\ find.next_home[1] \in candidates
                  /\ find.next_home[1].kickoff >= find.reference
                  /\ \A m \in candidates : find.next_home[1].kickoff <= m.kickoff

\* a later USC home match precedes the earliest one in the list, and a past USC
\* home match is skipped
C2_Witness ==
    /\ find.pc = "returned"
    /\ find.next_home # None
    /\ Len(find.matches) = 3
    /\ find.matches[1].kickoff > find.next_home[1].kickoff
    /\ is_usc(find.matches[1].host)
    /\ \E i \in 1..3 : is_usc(find.matches[i].host)
                       /\ find.matches[i].kickoff < find.reference

\* --recent-limit is an unvalidated int: negative values reach the function
Limits == (0 - 1)..MaxLimit

InitLast ==
    /\ find \in {[pc |-> "ready", matches |-> m, team_name |-> <<>>, limit |-> 0,
                  reference |-> 0, last_matches |-> <<>>]
                   : m \in SeqsUpTo(PlayedMatches, MaxMatches)}
    /\ fetch = Idle /\ mvp = Idle /\ lineup = Idle /\ pdf = Idle /\ cmp = Idle
    /\ run = Idle /\ stopwatch = Idle

FindLastMatchesForTeam ==
    /\ find.pc = "ready"
    /\ \E reference \in References, team_name \in {T_USC, T_DRESDEN}, limit \in Limits :
          find' = [find EXCEPT !.pc = "returned",
                               !.reference = reference,
                               !.team_name = team_name,
                               !.limit = limit,
                               !.last_matches =
                                   find_last_matches_for_team(find.matches, team_name,
                                                              limit, reference)]
    /\ UNCHANGED <<fetch, mvp, lineup, pdf, cmp, run, stopwatch>>

NextLast == FindLastMatchesForTeam

SpecLast == InitLast /\ [][NextLast]_vars

IsRelevantFor(match, team_name, reference) ==
    /\ match.result # NULL
    /\ match.kickoff < reference
    /\ \/ normalize_name(team_name) = normalize_name(match.home_team)
       \/ normalize_name(team_name) = normalize_name(match.away_team)

Count(s, x) == Cardinality({i \in 1..Len(s) : s[i] = x})

\* the returned matches are relevant ones of the schedule, newest first, and no
\* relevant match left out is newer than a returned one
LastMatchesWellFormed ==
    LET last == find.last_matches
        relevant == {i \in 1..Len(find.matches) :
                        IsRelevantFor(find.matches[i], find.team_name, find.reference)}
    IN  /\ \A i \in 1..Len(last) :
              /\ IsRelevantFor(last[i], find.team_name, find.reference)
              /\ Count(last, last[i]) <= Count(find.matches, last[i])
        /\ \A i \in 1..(Len(last) - 1) : last[i].kickoff >= last[i + 1].kickoff
        /\ \A i \in relevant :
              \/ Count(last, find.matches[i]) = Count(find.matches, find.matches[i])
              \/ \A j \in 1..Len(last) : find.matches[i].kickoff <= last[j].kickoff

\* C3: find_last_matches_for_team returns at most `limit` matches, all finished,
\* kicked off strictly before the reference and involving the team (names compared
\* after normalize_name), ordered by kickoff descending, and they are the `limit`
\* most recent such matches.  A limit below zero is read as asking for no match.
C3_LastMatches ==
    find.pc = "returned" =>
        LET relevant == {i \in 1..Len(find.matches) :
                            IsRelevantFor(find.matches[i], find.team_name, find.reference)}
            wanted == Max2(find.limit, 0)
        IN  /\ Len(find.last_matches) <= wanted
            /\ Len(find.last_matches) = Min2(wanted, Cardinality(relevant))
            /\ LastMatchesWellFormed

\* the same statement holds of every call with limit >= 0
C3_LastMatchesNonNegativeLimit == find.limit >= 0 => C3_LastMatches

(***************************************************************************)
(* __main__.main: the report generator                                     *)
(***************************************************************************)
MaxRunMatches == 2

Absent == [kind |-> "absent"]

Previous == [kind |-> "written by a previous run"]

NoHomeMatchMessage == "Kein zuk&uuml;nftiges Heimspiel des USC M&uuml;nster gefunden."

\* A path is the sequence of its components, and so is a relative URL: ./a/b is
\* <<".", "a", "b">>.
DEFAULT_OUTPUT_PATH == <<"docs", "index.html">>

DEFAULT_APP_OUTPUT_PATH == <<"docs", "index_app.html">>

DEFAULT_MVP_OUTPUT_PATH == <<"docs", "data", "mvp_rankings.json">>

DEFAULT_SCHEDULE_PATH == <<"data", "schedule.csv">>

\* --app-output: the default, a file below the directory of the report, a file
\* in another directory, and the path of the report itself
AppOutputArguments ==
    {DEFAULT_APP_OUTPUT_PATH, <<"docs", "app", "index.html">>, <<"build", "app.html">>,
     DEFAULT_OUTPUT_PATH}

\* Path.parent and Path.name
Parent(path) == SubSeq(path, 1, Len(path) - 1)

Name(path) == path[Len(path)]

IsBelow(path, directory) ==
    Len(directory) <= Len(path) /\ SubSeq(path, 1, Len(directory)) = directory

\* path.relative_to(directory).as_posix(), None for ValueError
relative_to(path, directory) ==
    IF IsBelow(path, directory)
    THEN Some(SubSeq(path, Len(directory) + 1, Len(path)))
    ELSE None

\* f"./{relative}"
DotSlash(relative) == <<".">> \o relative

ManifestPath(output) == Append(Parent(output), "manifest.webmanifest")

ServiceWorkerPath(output) == Append(Parent(output), "sw.js")

RunFixtures ==
    { [home_team |-> T_USC, away_team |-> T_DRESDEN, host |-> T_USC],
      [home_team |-> T_DRESDEN, away_team |-> T_USC_ASCII, host |-> T_DRESDEN] }

RunMatches == {MakeMatch(f, k, NULL) : f \in RunFixtures, k \in 1..MaxRunMatches}

\* the files main writes below the output directory, the app file and the MVP file
OutputFiles ==
    {DEFAULT_OUTPUT_PATH, DEFAULT_MVP_OUTPUT_PATH, ManifestPath(DEFAULT_OUTPUT_PATH),
     ServiceWorkerPath(DEFAULT_OUTPUT_PATH)} \cup AppOutputArguments

InitialFiles(previous) ==
    [f \in OutputFiles \cup {DEFAULT_SCHEDULE_PATH} |->
        IF previous THEN Previous ELSE Absent]

InitMain ==
    /\ run \in {[pc |-> "download_schedule",
                 args |-> [skip_app_output |-> a, skip_mvp_output |-> m,
                           output |-> DEFAULT_OUTPUT_PATH, app_output |-> app,
                           mvp_output |-> DEFAULT_MVP_OUTPUT_PATH,
                           schedule_path |-> DEFAULT_SCHEDULE_PATH],
                 now |-> t, schedule |-> rows, previous |-> p,
                 files |-> InitialFiles(p), matches |-> <<>>, next_home |-> None,
                 app_relative |-> None, message |-> NULL]
                  : a \in BOOLEAN, m \in BOOLEAN, app \in AppOutputArguments,
                    t \in 1..(MaxRunMatches + 1),
                    rows \in SeqsUpTo(RunMatches, MaxRunMatches), p \in BOOLEAN}
    /\ find = Idle /\ fetch = Idle /\ mvp = Idle /\ lineup = Idle /\ pdf = Idle
    /\ cmp = Idle /\ stopwatch = Idle

RunOnly == UNCHANGED <<find, fetch, mvp, lineup, pdf, cmp, stopwatch>>

\* download_schedule(args.schedule_path, url=args.schedule_url): the CSV file is
\* written, or the failure of the primary download propagates out of main
MainDownloadSchedule ==
    /\ run.pc = "download_schedule"
    /\ \/ run' = [run EXCEPT !.pc = "load_schedule",
                             !.files[run.args.schedule_path] =
                                 [kind |-> "csv", rows |-> run.schedule]]
       \/ run' = [run EXCEPT !.pc = "raised"]
    /\ RunOnly

\* load_schedule_from_file and fetch_schedule_match_metadata (its failure is caught)
MainLoadSchedule ==
    /\ run.pc = "load_schedule"
    /\ run' = [run EXCEPT !.pc = "find_next_home",
                          !.matches = run.files[run.args.schedule_path].rows]
    /\ RunOnly

\* faulty variant: main goes on without a next home match
MainFindNextHomeNoExit ==
    /\ run.pc = "find_next_home"
    /\ run' = [run EXCEPT !.pc = "prepare",
                          !.next_home = find_next_usc_home_match(run.matches, run.now)]
    /\ RunOnly

MainFindNextHome ==
    /\ run.pc = "find_next_home"
    /\ LET next_home == find_next_usc_home_match(run.matches, run.now)
       IN  IF next_home = None
           THEN run' = [run EXCEPT !.pc = "exit", !.message = NoHomeMatchMessage]
           ELSE run' = [run EXCEPT !.pc = "prepare", !.next_home = next_home]
    /\ RunOnly

\* lines 146-273: upcoming and recent matches, news, rosters, transfers, photos,
\* season results, direct comparisons; the unguarded calls may raise
MainPrepare ==
    /\ run.pc = "prepare"
    /\ \/ run' = [run EXCEPT !.pc = "mvp"]
       \/ run' = [run EXCEPT !.pc = "raised"]
    /\ RunOnly

\* lines 275-291: the MVP rankings are written unless skipped or their download fails
MainMvpOutput ==
    /\ run.pc = "mvp"
    /\ \/ /\ ~run.args.skip_mvp_output
          /\ run' = [run EXCEPT !.pc = "report",
                                !.files[run.args.mvp_output] = [kind |-> "mvp rankings"]]
       \/ run' = [run EXCEPT !.pc = "report"]
    /\ RunOnly

\* lines 293-344: enrich, collect the statistics, render and write the report
MainWriteReport ==
    /\ run.pc = "report"
    /\ \/ run' = [run EXCEPT !.pc = "app",
                             !.files[run.args.output] =
                                 [kind |-> "report", font_scale |-> "1"]]
       \/ run' = [run EXCEPT !.pc = "raised"]
    /\ RunOnly

\* app_relative after lines 351-354: the path below the directory of the report,
\* or the bare name of the file
AppRelative(app_output, output_dir) ==
    IF relative_to(app_output, output_dir) # None THEN relative_to(app_output, output_dir)
    ELSE Some(<<Name(app_output)>>)

\* lines 346-354; a Path is never falsy
MainWriteApp ==
    /\ run.pc = "app"
    /\ IF ~run.args.skip_app_output
       THEN run' = [run EXCEPT !.pc = "manifest",
                               !.files[run.args.app_output] =
                                   [kind |-> "report", font_scale |-> "app_scale"],
                               !.app_relative =
                                   AppRelative(run.args.app_output, Parent(run.args.output))]
       ELSE run' = [run EXCEPT !.pc = "manifest"]
    /\ RunOnly

\* output_relative = args.output.relative_to(output_dir).as_posix()
OutputRelative(output) == relative_to(output, Parent(output))[1]

\* line 359
StartUrl(app_relative, output_relative) ==
    IF app_relative # None THEN DotSlash(app_relative[1]) ELSE DotSlash(output_relative)

\* lines 356-388
MainWriteManifest ==
    /\ run.pc = "manifest"
    /\ run' = [run EXCEPT !.pc = "sw",
                          !.files[ManifestPath(run.args.output)] =
                              [kind |-> "manifest",
                               start_url |-> StartUrl(run.app_relative,
                                                      OutputRelative(run.args.output))]]
    /\ RunOnly

\* lines 390-397
OfflineUrls(app_relative, output_relative) ==
    <<DotSlash(<<>>), DotSlash(output_relative), DotSlash(<<"favicon.png">>),
      DotSlash(<<"manifest.webmanifest">>)>>
      \o (IF app_relative # None THEN <<DotSlash(app_relative[1])>> ELSE <<>>)

\* lines 390-441
MainWriteServiceWorker ==
    /\ run.pc = "sw"
    /\ run' = [run EXCEPT !.pc = "done",
                          !.files[ServiceWorkerPath(run.args.output)] =
                              [kind |-> "service worker",
                               offline_urls |-> OfflineUrls(run.app_relative,
                                                            OutputRelative(run.args.output)),
                               fallback_url |-> DotSlash(OutputRelative(run.args.output))]]
    /\ RunOnly

NextMain ==
    \/ MainDownloadSchedule
    \/ MainLoadSchedule
    \/ MainFindNextHome
    \/ MainPrepare
    \/ MainMvpOutput
    \/ MainWriteReport
    \/ MainWriteApp
    \/ MainWriteManifest
    \/ MainWriteServiceWorker

SpecMain == InitMain /\ [][NextMain]_vars

NoFutureUscHomeMatch ==
    \A i \in 1..Len(run.matches) :
        ~(is_usc(run.matches[i].host) /\ run.matches[i].kickoff >= run.now)

\* C4: when the schedule holds no future USC home match, main ends with the message
\* 'Kein zukuenftiges Heimspiel des USC Muenster gefunden.' and none of the report
\* HTML, app HTML, MVP JSON, manifest.webmanifest and sw.js is written; main goes
\* past that point only with a future USC home match.
C4_NoHomeMatchNoOutput ==
    /\ run.pc \in {"prepare", "mvp", "report", "app", "manifest", "sw", "done"}
          => ~NoFutureUscHomeMatch
    /\ run.pc = "exit" =>
          /\ NoFutureUscHomeMatch
          /\ run.message = NoHomeMatchMessage
          /\ \A f \in OutputFiles : run.files[f] = InitialFiles(run.previous)[f]

\* main stopped on a schedule whose only USC home match lies in the past, with the
\* outputs of a previous run in place
C4_Witness ==
    /\ run.pc = "exit"
    /\ run.previous
    /\ \E i \in 1..Len(run.matches) :
          is_usc(run.matches[i].host) /\ run.matches[i].kickoff < run.now

(***************************************************************************)
(* report.fetch_schedule / report.download_schedule                        *)
(***************************************************************************)
MaxCsvRows == 2

DEFAULT_SCHEDULE_URL == "https://www.volleyball-bundesliga.de/...matchSeriesId=776311171"

DVV_POKAL_SCHEDULE_URL == "https://www.dvv-pokal.de/...matchSeriesId=776311591"

CUSTOM_SCHEDULE_URL == "https://example.org/schedule.csv"

DEFAULT_ADDITIONAL_SCHEDULE_URLS == <<DVV_POKAL_SCHEDULE_URL>>

\* SCHEDULE_COMPETITION_LABELS.get(url)
SCHEDULE_COMPETITION_LABELS(schedule_url) ==
    CASE schedule_url = DEFAULT_SCHEDULE_URL -> "VBL"
      [] schedule_url = DVV_POKAL_SCHEDULE_URL -> "DVV-Pokal"
      [] OTHER -> NULL

\* the url argument: the default, the cup schedule, another export, or empty
ScheduleUrlArguments ==
    {DEFAULT_SCHEDULE_URL, DVV_POKAL_SCHEDULE_URL, CUSTOM_SCHEDULE_URL, ""}

CsvFieldnames ==
    <<"Datum", "Uhrzeit", "Mannschaft 1", "Mannschaft 2", "Gastgeber", "Wettbewerb">>

CsvRow(k, home, away, wettbewerb) ==
    [kickoff |-> k, home_team |-> home, away_team |-> away, host |-> home,
     result |-> NULL, Wettbewerb |-> wettbewerb]

CsvRows ==
    { CsvRow(2, T_USC, T_DRESDEN, NULL),
      CsvRow(2, T_USC_ASCII, T_DRESDEN_LOWER, "DVV-Pokal"),
      CsvRow(1, T_DRESDEN, T_WIESBADEN, "1. Bundesliga Frauen") }

\* a CSV export: the header line and the rows; the empty text has neither
CsvTexts ==
    {[fieldnames |-> CsvFieldnames, rows |-> r] : r \in SeqsUpTo(CsvRows, MaxCsvRows)}

EmptyText == [fieldnames |-> <<>>, rows |-> <<>>]

_resolve_schedule_urls(primary_url, extra_urls) ==
    (IF primary_url # "" THEN <<primary_url>> ELSE <<>>)
    \o Filter(extra_urls, LAMBDA entry : entry # "")

_infer_competition_label(schedule_url, primary_url) ==
    SCHEDULE_COMPETITION_LABELS(schedule_url)

_normalize_competition_label(value) ==
    CASE value = NULL -> NULL
      [] value = "" -> NULL
      [] value = "1. Bundesliga Frauen" -> "VBL"
      [] OTHER -> value

\* parse_schedule(csv_text, competition=...)
parse_schedule(csv_text, competition) ==
    LET fallback_competition == _normalize_competition_label(competition)
        ToMatch(row) ==
            LET own == _normalize_competition_label(row.Wettbewerb)
            IN  [kickoff |-> row.kickoff, home_team |-> row.home_team,
                 away_team |-> row.away_team, host |-> row.host, result |-> row.result,
                 competition |-> IF own # NULL THEN own ELSE fallback_competition]
    IN  [i \in 1..Len(csv_text.rows) |-> ToMatch(csv_text.rows[i])]

Signature(match) ==
    <<match.kickoff, normalize_name(match.home_team), normalize_name(match.away_team)>>

RECURSIVE DeduplicateFrom(_, _)
DeduplicateFrom(ordered, unique) ==
    IF ordered = <<>> THEN unique
    ELSE LET match == Head(ordered)
             seen == {i \in 1..Len(unique) : Signature(unique[i]) = Signature(match)}
         IN  IF seen # {}
             THEN LET existing_index == CHOOSE i \in seen : TRUE
                  IN  DeduplicateFrom(Tail(ordered),
                         IF unique[existing_index].competition = NULL
                            /\ match.competition # NULL
                         THEN [unique EXCEPT ![existing_index].competition =
                                                  match.competition]
                         ELSE unique)
             ELSE DeduplicateFrom(Tail(ordered), Append(unique, match))

_deduplicate_matches(matches) == DeduplicateFrom(SortAsc(matches, Kickoff), <<>>)

\* _combine_schedule_csv_texts: sources is a sequence of <<csv_text, label>>
RECURSIVE CombineFieldnames(_, _)
CombineFieldnames(sources, fieldnames) ==
    IF sources = <<>> THEN fieldnames
    ELSE LET csv_text == Head(sources)[1]
             competition_label == Head(sources)[2]
             own == fieldnames \o Filter(csv_text.fieldnames,
                                         LAMBDA name : name \notin Range(fieldnames))
             labelled ==
                 \/ competition_label # NULL
                 \/ \E i \in 1..Len(csv_text.rows) : csv_text.rows[i].Wettbewerb # NULL
             with == IF labelled /\ "Wettbewerb" \notin Range(own)
                     THEN Append(own, "Wettbewerb") ELSE own
         IN  CombineFieldnames(Tail(sources), with)

CombineRows(csv_text, competition_label) ==
    [i \in 1..Len(csv_text.rows) |->
        IF competition_label # NULL /\ csv_text.rows[i].Wettbewerb = NULL
        THEN [csv_text.rows[i] EXCEPT !.Wettbewerb = competition_label]
        ELSE csv_text.rows[i]]

_combine_schedule_csv_texts(sources) ==
    LET fieldnames == CombineFieldnames(sources, <<>>)
        rows == Concat([i \in 1..Len(sources) |->
                           CombineRows(sources[i][1], sources[i][2])])
    IN  IF fieldnames = <<>> THEN EmptyText
        ELSE [fieldnames |-> fieldnames, rows |-> rows]

\* what _download_schedule_text returns for a URL when the download succeeds
ServerText(server, schedule_url) ==
    IF schedule_url = DVV_POKAL_SCHEDULE_URL THEN server.dvv ELSE server.vbl

InitFetch ==
    /\ fetch \in {[pc |-> "loop", fn |-> fn, url |-> url,
                   urls |-> _resolve_schedule_urls(url, DEFAULT_ADDITIONAL_SCHEDULE_URLS),
                   index |-> 1, server |-> [vbl |-> v, dvv |-> d],
                   matches |-> <<>>, csv_sources |-> <<>>, warnings |-> <<>>,
                   attempts |-> <<>>, result |-> NULL, destination |-> Previous]
                    : fn \in {"fetch_schedule", "download_schedule"},
                      url \in ScheduleUrlArguments, v \in CsvTexts, d \in CsvTexts}
    /\ find = Idle /\ mvp = Idle /\ lineup = Idle /\ pdf = Idle /\ cmp = Idle
    /\ run = Idle /\ stopwatch = Idle

FetchOnly == UNCHANGED <<find, mvp, lineup, pdf, cmp, run, stopwatch>>

\* faulty variant: every failed download is only warned about
OnDownloadFailureWarnOnly(state, schedule_url) ==
    [state EXCEPT !.warnings = Append(@, schedule_url), !.index = @ + 1]

\* what the except clause does with a failed download
OnDownloadFailure(state, schedule_url) ==
    IF schedule_url = state.url
    THEN [state EXCEPT !.pc = "raised"]
    ELSE [state EXCEPT !.warnings = Append(@, schedule_url), !.index = @ + 1]

\* one iteration of the loop of fetch_schedule
FetchScheduleDownload ==
    /\ fetch.pc = "loop" /\ fetch.fn = "fetch_schedule"
    /\ fetch.index <= Len(fetch.urls)
    /\ LET schedule_url == fetch.urls[fetch.index]
       IN  \/ LET csv_text == ServerText(fetch.server, schedule_url)
                  competition_label == _infer_competition_label(schedule_url, fetch.url)
              IN  fetch' = [fetch EXCEPT
                      !.matches = @ \o parse_schedule(csv_text, competition_label),
                      !.attempts = Append(@, [url |-> schedule_url, ok |-> TRUE]),
                      !.index = @ + 1]
           \/ fetch' = [OnDownloadFailure(fetch, schedule_url) EXCEPT
                      !.attempts = Append(@, [url |-> schedule_url, ok |-> FALSE])]
    /\ FetchOnly

FetchScheduleReturn ==
    /\ fetch.pc = "loop" /\ fetch.fn = "fetch_schedule"
    /\ fetch.index > Len(fetch.urls)
    /\ fetch' = [fetch EXCEPT !.pc = "returned",
                              !.result = _deduplicate_matches(fetch.matches)]
    /\ FetchOnly

\* one iteration of the loop of download_schedule
DownloadScheduleDownload ==
    /\ fetch.pc = "loop" /\ fetch.fn = "download_schedule"
    /\ fetch.index <= Len(fetch.urls)
    /\ LET schedule_url == fetch.urls[fetch.index]
       IN  \/ LET csv_text == ServerText(fetch.server, schedule_url)
                  competition_label == _infer_competition_label(schedule_url, fetch.url)
              IN  fetch' = [fetch EXCEPT
                      !.csv_sources = Append(@, <<csv_text, competition_label>>),
                      !.attempts = Append(@, [url |-> schedule_url, ok |-> TRUE]),
                      !.index = @ + 1]
           \/ fetch' = [OnDownloadFailure(fetch, schedule_url) EXCEPT
                      !.attempts = Append(@, [url |-> schedule_url, ok |-> FALSE])]
    /\ FetchOnly

DownloadScheduleWrite ==
    /\ fetch.pc = "loop" /\ fetch.fn = "download_schedule"
    /\ fetch.index > Len(fetch.urls)
    /\ LET combined == _combine_schedule_csv_texts(fetch.csv_sources)
       IN  fetch' = [fetch EXCEPT !.pc = "returned",
                                  !.destination = combined,
                                  !.result = "destination"]
    /\ FetchOnly

NextFetch ==
    \/ FetchScheduleDownload
    \/ FetchScheduleReturn
    \/ DownloadScheduleDownload
    \/ DownloadScheduleWrite

SpecFetch == InitFetch /\ [][NextFetch]_vars

FailedUrls == Filter(fetch.attempts, LAMBDA a : ~a.ok)

LoadedUrls == Filter(fetch.attempts, LAMBDA a : a.ok)

\* the schedules that did load, in download order, with their labels
LoadedSources ==
    [i \in 1..Len(LoadedUrls) |->
        <<ServerText(fetch.server, LoadedUrls[i].url),
          SCHEDULE_COMPETITION_LABELS(LoadedUrls[i].url)>>]

C5_WitnessRaised ==
    /\ fetch.pc = "raised"
    /\ fetch.fn = "download_schedule"
    /\ fetch.attempts = <<[url |-> DEFAULT_SCHEDULE_URL, ok |-> FALSE]>>

(***************************************************************************)
(* mvp.collect_mvp_rankings                                                *)
(***************************************************************************)
MaxRowLimit == 2

MaxServerRows == 3

MaxFailures == 2

RECURSIVE Join(_)
Join(chars) == IF chars = <<>> THEN "" ELSE Head(chars) \o Join(Tail(chars))

DEFAULT_INDICATOR_ID == "60245649"

MVP_HEADERS ==
    <<"Rang", "", "Name", "S&auml;tze", "Spiele", "Position", "Mannschaft", "Nation",
      "Wert1", "Wert2", "Wert3", "Kennzahl", "Wertung">>

MVP_INDICATORS ==
    << <<"60245649", "alle Spielelemente / Top-Scorer">>,
       <<"29593924", "Aufschlag / Quote Aufschl&auml;ge mit Wirkung">>,
       <<"31385020", "Annahme / Quote perfekte oder gute Annahme">>,
       <<"29593922", "Aufschlag / Quote Aufschlagpunkte">>,
       <<"60245660", "Annahme / Annahmeeffizienz">>,
       <<"29593918", "Angriff / Angriffseffizienz">>,
       <<"29593928", "Block / Blockpunkte">>,
       <<"29593923", "Aufschlag / Aufschlagpunkte">>,
       <<"29593919", "Angriff / Quote Angriffspunkte">>,
       <<"29593920", "Angriff / Angriffspunkte">>,
       <<"60245659", "Aufschlag / Aufschlageffizienz">> >>

\* team name and filter value; the dict is keyed by normalize_name(team name)
TEAM_RANKING_FILTERS ==
    <<
      <<<<"A", "l", "l", "i", "a", "n", "z", " ", "M", "T", "V", " ", "S", "t",
          "u", "t", "t", "g", "a", "r", "t">>,
        <<"S", "t", "u", "t", "t", "g", "a", "r", "t">>>>,
      <<<<"B", "i", "n", "d", "e", "r", " ", "B", "l", "a", "u", "b", "auml",
          "r", "e", "n", " ", "T", "S", "V", " ", "F", "l", "a", "c", "h", "t">>,
        <<"F", "l", "a", "c", "h", "t">>>>,
      <<<<"D", "r", "e", "s", "d", "n", "e", "r", " ", "S", "C">>,
        <<"D", "r", "e", "s", "d", "e", "n">>>>,
      <<<<"E", "T", "V", " ", "H", "a", "m", "b", "u", "r", "g", "e", "r", " ",
          "V", "o", "l", "k", "s", "b", "a", "n", "k", " ", "V", "o", "l", "l",
          "e", "y", "s">>,
        <<"H", "a", "m", "b", "u", "r", "g">>>>,
      <<<<"L", "a", "d", "i", "e", "s", " ", "i", "n", " ", "B", "l", "a", "c",
          "k", " ", "A", "a", "c", "h", "e", "n">>,
        <<"A", "a", "c", "h", "e", "n">>>>,
      <<<<"S", "c", "h", "w", "a", "r", "z", "-", "W", "e", "i", "szlig", " ",
          "E", "r", "f", "u", "r", "t">>,
        <<"E", "r", "f", "u", "r", "t">>>>,
      <<<<"S", "k", "u", "r", "i", "o", "s", " ", "V", "o", "l", "l", "e", "y",
          "s", " ", "B", "o", "r", "k", "e", "n">>,
        <<"B", "o", "r", "k", "e", "n">>>>,
      <<<<"S", "S", "C", " ", "P", "a", "l", "m", "b", "e", "r", "g", " ", "S",
          "c", "h", "w", "e", "r", "i", "n">>,
        <<"S", "c", "h", "w", "e", "r", "i", "n">>>>,
      <<<<"U", "S", "C", " ", "M", "uuml", "n", "s", "t", "e", "r">>,
        <<"M", "uuml", "n", "s", "t", "e", "r">>>>,
      <<<<"V", "C", " ", "W", "i", "e", "s", "b", "a", "d", "e", "n">>,
        <<"W", "i", "e", "s", "b", "a", "d", "e", "n">>>>,
      <<<<"V", "f", "B", " ", "S", "u", "h", "l", " ", "L", "O", "T", "T", "O",
          " ", "T", "h", "uuml", "r", "i", "n", "g", "e", "n">>,
        <<"S", "u", "h", "l">>>>
    >>

TeamRankingFilterKeys ==
    [i \in 1..Len(TEAM_RANKING_FILTERS) |-> normalize_name_text(TEAM_RANKING_FILTERS[i][1])]

T_BLAU_GELB == <<"V", "f", "L", " ", "B", "l", "a", "u", "-", "G", "e", "l", "b">>

\* None is <<>>, a filter is a non-empty text
_resolve_team_filter(team_name) ==
    LET normalized == normalize_name(team_name)
        hits == {i \in 1..Len(TEAM_RANKING_FILTERS) : TeamRankingFilterKeys[i] = normalized}
        parts == Split(Replace(team_name, <<"-">>, <<" ">>))
    IN  IF hits # {} THEN TEAM_RANKING_FILTERS[CHOOSE i \in hits : TRUE][2]
        ELSE IF parts # <<>> THEN parts[Len(parts)]
        ELSE <<>>

_build_placeholder_row(team_label) ==
    [i \in 1..Len(MVP_HEADERS) |->
        IF i = 7 THEN team_label ELSE IF i = 2 THEN "" ELSE "ndash"]

\* faulty variant: the rows are padded but never cut
_ensure_row_limit_pad_only(rows, team_label, limit) ==
    rows \o [i \in 1..Max2(limit - Len(rows), 0) |-> _build_placeholder_row(team_label)]

_ensure_row_limit(rows, team_label, limit) ==
    LET limited == Slice(rows, limit)
    IN  limited \o [i \in 1..Max2(limit - Len(limited), 0) |->
                        _build_placeholder_row(team_label)]

_reorder_row(columns) ==
    IF Len(columns) < 5 THEN columns
    ELSE LET n == Len(columns)
         IN  SubSeq(columns, 1, 3) \o <<columns[n - 2], columns[n - 1]>>
             \o SubSeq(columns, 4, n - 3) \o <<columns[n]>>

\* The ranking table the site renders for an indicator and a team filter: row k
\* in the column order of the page (sets and games before the last column).
ServerRowCount(indicator_id, team_filter) ==
    LET position == CHOOSE i \in 1..Len(MVP_INDICATORS) : MVP_INDICATORS[i][1] = indicator_id
    IN  (position + 2 * Len(team_filter)) % (MaxServerRows + 1)

ServerColumns(indicator_id, team_filter, k) ==
    <<Digits[k + 1], "", "player " \o Digits[k + 1], "Position", Join(team_filter),
      "Nation", "a", "b", "c", indicator_id, "sets", "games", "score">>

\* _extract_table_rows on the table of a successful filter request
ExtractTableRows(indicator_id, team_filter) ==
    [k \in 1..ServerRowCount(indicator_id, team_filter) |->
        _reorder_row(ServerColumns(indicator_id, team_filter, k))]

\* data[label] = {"headers": ..., "rows": rows} on an OrderedDict held as a
\* sequence of entries in insertion order
DictSet(data, label, rows) ==
    LET entry == [label |-> label, headers |-> MVP_HEADERS, rows |-> rows]
        at == {i \in 1..Len(data) : data[i].label = label}
    IN  IF at # {} THEN [data EXCEPT ![CHOOSE i \in at : TRUE] = entry]
        ELSE Append(data, entry)

RECURSIVE ResolveFilters(_)
ResolveFilters(team_names) ==
    IF team_names = <<>> THEN <<>>
    ELSE LET team_filter == _resolve_team_filter(Head(team_names))
         IN  (IF team_filter = <<>> THEN <<>>
              ELSE <<[name |-> Head(team_names), team_filter |-> team_filter]>>)
             \o ResolveFilters(Tail(team_names))

\* the team lists collect_mvp_rankings is called with
MvpTeamLists ==
    { <<>>, << <<>> >>, <<T_USC>>, <<T_DRESDEN, T_USC>>,
      <<T_BLAU_GELB, <<>>, T_USC_ASCII>> }

InitMvp ==
    /\ mvp \in {[pc |-> "start", team_names |-> names, limit |-> limit,
                 filters |-> <<>>, client |-> [indicator |-> NULL],
                 server_indicator |-> DEFAULT_INDICATOR_ID,
                 index |-> 1, team |-> 1, combined_rows |-> <<>>, data |-> <<>>,
                 select_failed |-> {}, fetch_failed |-> {}, failures |-> 0]
                  : names \in MvpTeamLists, limit \in 0..MaxRowLimit}
    /\ find = Idle /\ fetch = Idle /\ lineup = Idle /\ pdf = Idle /\ cmp = Idle
    /\ run = Idle /\ stopwatch = Idle

MvpOnly == UNCHANGED <<find, fetch, lineup, pdf, cmp, run, stopwatch>>

\* lines 237-251: the early returns and _MVPClient.create()
MvpCreateClient ==
    /\ mvp.pc = "start"
    /\ LET filters == ResolveFilters(mvp.team_names)
       IN  IF mvp.team_names = <<>> \/ filters = <<>>
           THEN mvp' = [mvp EXCEPT !.pc = "returned", !.filters = filters]
           ELSE \/ mvp' = [mvp EXCEPT !.pc = "select", !.filters = filters,
                                      !.client = [indicator |-> DEFAULT_INDICATOR_ID]]
                \/ mvp' = [mvp EXCEPT !.pc = "raised", !.filters = filters]
    /\ MvpOnly

\* faulty variant: the failure is logged and the team rows are fetched all the same
OnSelectFailureFetchAnyway(state, label) ==
    [state EXCEPT !.pc = "fetch", !.team = 1, !.combined_rows = <<>>]

\* what the except clause of select_indicator does
OnSelectFailure(state, label) ==
    [state EXCEPT !.data = DictSet(@, label, <<>>), !.index = @ + 1]

\* lines 254-262: client.select_indicator(indicator_id)
MvpSelectIndicator ==
    /\ mvp.pc = "select"
    /\ mvp.index <= Len(MVP_INDICATORS)
    /\ LET indicator_id == MVP_INDICATORS[mvp.index][1]
           label == MVP_INDICATORS[mvp.index][2]
           selected == [mvp EXCEPT !.pc = "fetch", !.team = 1, !.combined_rows = <<>>]
       IN  IF indicator_id = mvp.client.indicator
           THEN mvp' = selected
           ELSE \/ mvp' = [selected EXCEPT !.client.indicator = indicator_id,
                                           !.server_indicator = indicator_id]
                \/ /\ mvp.failures < MaxFailures
                   \* the request failed on its way, or its answer was lost or unparsable
                   /\ \E reached \in BOOLEAN :
                         mvp' = [OnSelectFailure(mvp, label) EXCEPT
                                    !.server_indicator =
                                        IF reached THEN indicator_id ELSE @,
                                    !.select_failed = @ \cup {mvp.index},
                                    !.failures = @ + 1]
    /\ MvpOnly

\* lines 265-276: client.fetch_team_rows(team_filter) and _ensure_row_limit
MvpFetchTeamRows ==
    /\ mvp.pc = "fetch"
    /\ mvp.team <= Len(mvp.filters)
    /\ LET team_filter == mvp.filters[mvp.team].team_filter
       IN  \/ LET rows == ExtractTableRows(mvp.server_indicator, team_filter)
              IN  mvp' = [mvp EXCEPT
                      !.combined_rows =
                          @ \o _ensure_row_limit(rows, Join(team_filter), mvp.limit),
                      !.team = @ + 1]
           \/ /\ mvp.failures < MaxFailures
              /\ mvp' = [mvp EXCEPT
                      !.combined_rows =
                          @ \o _ensure_row_limit(<<>>, Join(team_filter), mvp.limit),
                      !.team = @ + 1,
                      !.fetch_failed = @ \cup {<<mvp.index, mvp.team>>},
                      !.failures = @ + 1]
    /\ MvpOnly

\* line 278
MvpStoreIndicator ==
    /\ mvp.pc = "fetch"
    /\ mvp.team > Len(mvp.filters)
    /\ mvp' = [mvp EXCEPT !.pc = "select",
                          !.data = DictSet(@, MVP_INDICATORS[mvp.index][2],
                                           mvp.combined_rows),
                          !.index = @ + 1]
    /\ MvpOnly

\* line 280
MvpReturn ==
    /\ mvp.pc = "select"
    /\ mvp.index > Len(MVP_INDICATORS)
    /\ mvp' = [mvp EXCEPT !.pc = "returned"]
    /\ MvpOnly

NextMvp ==
    \/ MvpCreateClient
    \/ MvpSelectIndicator
    \/ MvpFetchTeamRows
    \/ MvpStoreIndicator
    \/ MvpReturn

SpecMvp == InitMvp /\ [][NextMvp]_vars

IndicatorOf(label) == CHOOSE i \in 1..Len(MVP_INDICATORS) : MVP_INDICATORS[i][2] = label

MannschaftColumn == CHOOSE i \in 1..Len(MVP_HEADERS) : MVP_HEADERS[i] = "Mannschaft"

IsPlaceholderRow(row, team_label) ==
    /\ Len(row) = Len(MVP_HEADERS)
    /\ row[MannschaftColumn] = team_label
    /\ \A i \in 1..Len(row) : i # MannschaftColumn => row[i] \in {"ndash", ""}

\* the rows team number t contributes to an entry: rows (t-1)*limit+1 .. t*limit
TeamBlock(entry, t) == SubSeq(entry.rows, (t - 1) * mvp.limit + 1, t * mvp.limit)

\* what the site lists for the indicator and the team, in the column order of
\* MVP_HEADERS; nothing when the request for it failed
ListedRows(i, t) ==
    IF <<i, t>> \in mvp.fetch_failed THEN <<>>
    ELSE LET id == MVP_INDICATORS[i][1]
             team_filter == mvp.filters[t].team_filter
         IN  [k \in 1..ServerRowCount(id, team_filter) |->
                 LET c == ServerColumns(id, team_filter, k)
                 IN  <<c[1], c[2], c[3], c[11], c[12], c[4], c[5], c[6], c[7], c[8],
                       c[9], c[10], c[13]>>]

BlockIsLimited(entry, i, t) ==
    LET block == TeamBlock(entry, t)
        listed == ListedRows(i, t)
        label == Join(mvp.filters[t].team_filter)
    IN  /\ Len(block) = mvp.limit
        /\ \A k \in 1..Len(block) :
              IF k <= Len(listed) THEN block[k] = listed[k]
              ELSE IsPlaceholderRow(block[k], label)

\* C6: for every limit >= 0 and every indicator whose selection succeeded, every
\* requested team that resolves to a filter contributes exactly `limit` rows: its
\* fetched rows cut to `limit` and padded with placeholder rows that carry the team
\* filter in the Mannschaft column; the blocks follow the order of the request.
C6_ExactlyLimitRowsPerTeam ==
    mvp.pc = "returned" =>
        \A e \in 1..Len(mvp.data) :
            LET entry == mvp.data[e]
                i == IndicatorOf(entry.label)
            IN  i \notin mvp.select_failed =>
                   /\ Len(entry.rows) = mvp.limit * Len(mvp.filters)
                   /\ \A t \in 1..Len(mvp.filters) : BlockIsLimited(entry, i, t)

\* an indicator was stored for two teams, one with more listed rows than the limit
\* and one with fewer
C6_Witness ==
    /\ mvp.pc = "returned"
    /\ mvp.limit = 2
    /\ Len(mvp.filters) = 2
    /\ \E e \in 1..Len(mvp.data) :
          LET i == IndicatorOf(mvp.data[e].label)
          IN  /\ i \notin mvp.select_failed
              /\ Len(ListedRows(i, 1)) > mvp.limit
              /\ Len(ListedRows(i, 2)) = 1
              /\ mvp.filters[1].team_filter # mvp.filters[2].team_filter

\* C7: once the client was created for at least one filter, the result has one
\* entry per indicator of MVP_INDICATORS in declaration order whatever fails later:
\* an indicator whose selection failed has no rows, a team whose rows could not be
\* fetched has placeholder rows only, and every other indicator and team has the
\* rows the site lists for it.
C7_OneEntryPerIndicator ==
    (mvp.pc = "returned" /\ mvp.filters # <<>>) =>
        /\ Len(mvp.data) = Len(MVP_INDICATORS)
        /\ \A i \in 1..Len(mvp.data) :
              /\ mvp.data[i].label = MVP_INDICATORS[i][2]
              /\ mvp.data[i].headers = MVP_HEADERS
              /\ i \in mvp.select_failed => mvp.data[i].rows = <<>>
              /\ i \notin mvp.select_failed =>
                    \A t \in 1..Len(mvp.filters) :
                        LET block == TeamBlock(mvp.data[i], t)
                            label == Join(mvp.filters[t].team_filter)
                        IN  IF <<i, t>> \in mvp.fetch_failed
                            THEN /\ Len(block) = mvp.limit
                                 /\ \A k \in 1..Len(block) :
                                       IsPlaceholderRow(block[k], label)
                            ELSE \A k \in 1..Min2(Len(block), Len(ListedRows(i, t))) :
                                     block[k] = ListedRows(i, t)[k]

\* a selection and a fetch failed on the way to a full result for two teams
C7_Witness ==
    /\ mvp.pc = "returned"
    /\ Len(mvp.filters) = 2
    /\ mvp.limit = 2
    /\ mvp.select_failed # {}
    /\ mvp.fetch_failed # {}

(***************************************************************************)
(* lineups.py: reading the set tables of a scoresheet                      *)
(***************************************************************************)
POSITION_SLOTS == <<<<"I">>, <<"I", "I">>, <<"I", "I", "I">>, <<"I", "V">>, <<"V">>, <<"V", "I">>>>

\* a dict is a sequence of <<key, value>> pairs in insertion order
Keys(dict) == [i \in 1..Len(dict) |-> dict[i][1]]

HasKey(dict, key) == \E i \in 1..Len(dict) : dict[i][1] = key

\* dict.get(key, default)
Lookup(dict, key, default) ==
    IF HasKey(dict, key)
    THEN dict[CHOOSE i \in 1..Len(dict) : dict[i][1] = key][2]
    ELSE default

Indices(s) == [i \in 1..Len(s) |-> i]

Least(S) == CHOOSE i \in S : \A j \in S : i <= j

\* sep.join(words)
RECURSIVE JoinWith(_, _)
JoinWith(words, sep) ==
    IF words = <<>> THEN <<>>
    ELSE IF Len(words) = 1 THEN Head(words)
    ELSE Head(words) \o sep \o JoinWith(Tail(words), sep)

\* None where the value is otherwise a text, e.g. a table cell pdfplumber left empty
NoneText == <<NULL>>

\* the characters of \w
WordChars == DigitChars \union Range(UpperChars) \union Range(LowerChars) \union {"_", "szlig"}

IsWordChar(c) == c \in WordChars

\* the characters of [A-Za-z...] in _detect_codes_from_row
LetterChars == Range(UpperChars) \union Range(LowerChars) \union {"szlig"}

IsLetter(c) == c \in LetterChars

_clean_cell(cell) ==
    IF cell = NoneText THEN <<>>
    ELSE LET text == Replace(Replace(cell, <<"nbsp">>, <<" ">>), <<"\n">>, <<" ">>)
         IN  JoinWith(Split(text), <<" ">>)

\* length of the match of \b\d{1,2}\b that starts at position i, 0 if there is none
NumberAt(value, i) ==
    LET n == Len(value)
        boundaryAfter(j) == j = n \/ ~IsWordChar(value[j + 1])
    IN  IF ~(i <= n /\ IsDigit(value[i]) /\ (i = 1 \/ ~IsWordChar(value[i - 1])))
        THEN 0
        ELSE IF i + 1 <= n /\ IsDigit(value[i + 1]) /\ boundaryAfter(i + 1) THEN 2
        ELSE IF boundaryAfter(i) THEN 1
        ELSE 0

\* re.search(r"\b\d{1,2}\b", value): group(0) of the leftmost match, <<>> without one
FirstNumber(value) ==
    LET at == {i \in 1..Len(value) : NumberAt(value, i) > 0}
    IN  IF at = {} THEN <<>>
        ELSE SubSeq(value, Least(at), Least(at) + NumberAt(value, Least(at)) - 1)

RECURSIVE SkipSpaces(_, _)
SkipSpaces(text, j) ==
    IF j <= Len(text) /\ IsSpace(text[j]) THEN SkipSpaces(text, j + 1) ELSE j

\* \b([AB])\s+[A-Za-z...]{2,} matches at position i
CodeAt(text, i) ==
    /\ text[i] \in {"A", "B"}
    /\ i = 1 \/ ~IsWordChar(text[i - 1])
    /\ i + 1 <= Len(text) /\ IsSpace(text[i + 1])
    /\ LET j == SkipSpaces(text, i + 1)
       IN  j + 1 <= Len(text) /\ IsLetter(text[j]) /\ IsLetter(text[j + 1])

_detect_codes_from_row(row) ==
    LET text == JoinWith(row, <<" ">>)
        found == {i \in 1..Len(text) : CodeAt(text, i)}
        others == {i \in found : text[i] # text[Least(found)]}
    IN  IF found = {} \/ others = {} THEN None
        ELSE <<text[Least(found)], text[Least(others)]>>

_collect_positions(row, columns) ==
    LET values == Concat([k \in 1..Len(columns) |->
                     IF columns[k] > Len(row) \/ FirstNumber(row[columns[k]]) = <<>>
                     THEN <<>>
                     ELSE <<FirstNumber(row[columns[k]])>>])
    IN  Slice(values, 6)

\* the index is a column position from 1; 0 stands for None
_extract_score_value(row, index) ==
    IF index < 1 \/ index > Len(row) THEN <<>>
    ELSE FirstNumber(_clean_cell(row[index]))

RomanCols(row) == Filter(Indices(row), LAMBDA i : row[i] \in Range(POSITION_SLOTS))

\* the codes found so far, or else those of the row at position index
CodesOr(codes, rows, index) ==
    IF codes = None /\ index >= 1 THEN _detect_codes_from_row(rows[index]) ELSE codes

\* the team codes of the header row, of the row above it or of the one above that
HeaderCodes(rows, index) ==
    CodesOr(CodesOr(_detect_codes_from_row(rows[index]), rows, index - 1),
            rows, index - 2)

IsHeaderRow(rows, index) ==
    Len(RomanCols(rows[index])) >= 12 /\ HeaderCodes(rows, index) # None

\* what _find_header_indices returns for the header row at position index
HeaderAt(rows, index, roman_cols, score_indices) ==
    [header_index |-> index,
     left_cols |-> SubSeq(roman_cols, 1, 6),
     right_cols |-> SubSeq(roman_cols, 7, 12),
     team_codes |-> HeaderCodes(rows, index),
     left_score_idx |-> IF Len(score_indices) > 0 THEN score_indices[1] ELSE 0,
     right_score_idx |-> IF Len(score_indices) > 1 THEN score_indices[2] ELSE 0]

FirstHeader(rows, headers) ==
    IF headers = {} THEN None
    ELSE Some(HeaderAt(rows, Least(headers), RomanCols(rows[Least(headers)]),
                       Filter(Indices(rows[Least(headers)]),
                              LAMBDA i : rows[Least(headers)][i] = <<"P", "u", "n", "k", "t", "e">>)))

_find_header_indices(rows) ==
    FirstHeader(rows, {index \in 1..Len(rows) : IsHeaderRow(rows, index)})

\* faulty variant: the first row below the header is taken whatever it holds
BothCompleteAlways(left_values, right_values) == TRUE

\* len(left_values) == 6 and len(right_values) == 6
BothComplete(left_values, right_values) ==
    Len(left_values) = 6 /\ Len(right_values) = 6

\* the loop over the rows below the header; None when no row is returned
\* scores[code] = score unless the score is None
WithScore(scores, code, score) ==
    IF score = <<>> THEN scores ELSE Append(scores, <<code, score>>)

\* what is returned for the row below the header that holds both lineups
RowLineups(row, info, left_values, right_values) ==
    [lineups |-> << <<info.team_codes[1], left_values>>,
                    <<info.team_codes[2], right_values>> >>,
     scores |-> WithScore(
                    WithScore(<<>>, info.team_codes[1],
                              IF info.left_score_idx = 0 THEN <<>>
                              ELSE _extract_score_value(row, info.left_score_idx)),
                    info.team_codes[2],
                    IF info.right_score_idx = 0 THEN <<>>
                    ELSE _extract_score_value(row, info.right_score_idx))]

FirstComplete(rows, info, complete) ==
    IF complete = {} THEN None
    ELSE Some(RowLineups(rows[Least(complete)], info,
                         _collect_positions(rows[Least(complete)], info.left_cols),
                         _collect_positions(rows[Least(complete)], info.right_cols)))

\* the loop over the rows below the header; None when no row is returned
HeaderLineups(rows, info) ==
    FirstComplete(rows, info,
                  {r \in (info.header_index + 1)..Len(rows) :
                       BothComplete(_collect_positions(rows[r], info.left_cols),
                                    _collect_positions(rows[r], info.right_cols))})

\* the fallback for tables without a clear header
FallbackLineups(rows) ==
    LET team_order == _detect_codes_from_row(rows[1])
        fallback_row == IF Len(rows) > 1 THEN rows[2] ELSE rows[1]
        skip_cols == {i \in 1..Len(rows[1]) :
                          \/ Contains(rows[1][i], <<"P", "u", "n", "k", "t", "e">>)
                          \/ Contains(rows[1][i], <<"W", "e", "c", "h", "s", "e", "l">>)
                          \/ Contains(rows[1][i], <<"A", "u", "s", "z", "e", "i", "t">>)}
        digit_cols == Filter(Indices(fallback_row),
                             LAMBDA i : i \notin skip_cols
                                        /\ FirstNumber(fallback_row[i]) # <<>>)
        left == _collect_positions(fallback_row, SubSeq(digit_cols, 1, 6))
        right == _collect_positions(fallback_row, SubSeq(digit_cols, 7, 12))
    IN  IF Len(digit_cols) >= 12 /\ BothComplete(left, right)
        THEN [lineups |-> IF team_order # None
                          THEN << <<team_order[1], left>>, <<team_order[2], right>> >>
                          ELSE << <<"left", left>>, <<"right", right>> >>,
              scores |-> <<>>]
        ELSE [lineups |-> <<>>, scores |-> <<>>]

FoundOrFallback(rows, found) ==
    IF found # None THEN found[1] ELSE FallbackLineups(rows)

WithHeader(rows, header_info) ==
    FoundOrFallback(rows, IF header_info = None THEN None
                          ELSE HeaderLineups(rows, header_info[1]))

CleanRows(table) ==
    [i \in 1..Len(table) |-> [j \in 1..Len(table[i]) |-> _clean_cell(table[i][j])]]

ExtractPositions(table) ==
    WithHeader(CleanRows(table), _find_header_indices(CleanRows(table)))

(***************************************************************************)
(* Scoresheets: the set tables the extraction is run on                    *)
(***************************************************************************)
MaxSets == 2

\* one label column, six positions and a score column per team
TableWidth == 2 * Len(POSITION_SLOTS) + 3

LeftScoreCol == Len(POSITION_SLOTS) + 2

TitleRow(title, codes, keywords) ==
    [j \in 1..TableWidth |->
        IF j = 1 THEN title
        ELSE IF j = 2 THEN codes[1]
        ELSE IF j = LeftScoreCol + 1 THEN codes[2]
        ELSE IF j \in {LeftScoreCol, TableWidth} /\ keywords THEN <<"P", "u", "n", "k", "t", "e">>
        ELSE <<>>]

\* "full": twelve roman numerals and two score columns; "eleven": the last
\* numeral is missing; "plain": no score columns
HeaderRow(kind) ==
    [j \in 1..TableWidth |->
        IF j = 1 THEN <<>>
        ELSE IF j \in {LeftScoreCol, TableWidth}
             THEN (IF kind = "plain" THEN <<>> ELSE <<"P", "u", "n", "k", "t", "e">>)
        ELSE IF kind = "eleven" /\ j = TableWidth - 1 THEN <<>>
        ELSE POSITION_SLOTS[((j - 2) % (Len(POSITION_SLOTS) + 1)) + 1]]

LeftNumbers == <<<<"7">>, <<"1", "2">>, <<"3">>, <<"9">>, <<"1", "0">>, <<"1">>>>

RightNumbers == <<<<"2">>, <<"4">>, <<"6">>, <<"8">>, <<"1", "1">>, <<"5">>>>

FullRow ==
    [j \in 1..TableWidth |->
        IF j = 1 THEN NoneText
        ELSE IF j = LeftScoreCol THEN <<"2", "5">>
        ELSE IF j = TableWidth THEN <<"2", "0">>
        ELSE IF j < LeftScoreCol THEN LeftNumbers[j - 1]
        ELSE RightNumbers[j - LeftScoreCol]]

\* one position of the left team is empty
LeftShortRow == [FullRow EXCEPT ![4] = <<>>]

\* one cell of the right team holds three digits, which is no jersey number
RightWideRow == [FullRow EXCEPT ![LeftScoreCol + 2] = <<"1", "2", "3">>]

\* cells with line breaks, no-break spaces and text around the number
MessyRow ==
    [FullRow EXCEPT ![2] = <<"7", "\n">>,
                    ![3] = <<"1", "2", "nbsp", "x">>,
                    ![LeftScoreCol + 1] = <<"(", "2", ")">>,
                    ![LeftScoreCol] = <<>>]

\* the row ends before the last columns of the right team
ShortRow == SubSeq(FullRow, 1, TableWidth - 3)

DataRows ==
    { <<>>, <<FullRow>>, <<LeftShortRow>>, <<LeftShortRow, FullRow>>,
      <<RightWideRow>>, <<MessyRow>>, <<ShortRow>> }

CodeCells ==
    { <<<<"A", " ", "U", "S", "C">>, <<"B", " ", "D", "r", "e", "s", "d", "n", "e", "r">>>>, <<<<"B", " ", "D", "r", "e", "s", "d", "n", "e", "r">>, <<"A", " ", "U", "S", "C">>>>,
      << <<>>, <<>> >>, <<<<"A", " ", "U", "S", "C">>, <<"A", " ", "U", "S", "C">>>> }

Titles == {<<"S", "A", "T", "Z", " ", "1">>, <<"S", " ", "A", " ", "T", " ", "Z", " ", "2">>, <<"S", "A", "T", "S", " ", "3">>, <<"S", "A", "T", "Z">>, <<"A", "u", "f", "s", "t", "e", "l", "l", "u", "n", "g">>}

HeaderKinds == {"full", "eleven", "plain", "none"}

MakeTable(title, codes, keywords, header, data) ==
    <<TitleRow(title, codes, keywords)>>
    \o (IF header = "none" THEN <<>> ELSE <<HeaderRow(header)>>)
    \o data

Tables ==
    {MakeTable(title, codes, keywords, header, data) :
        title \in Titles, codes \in CodeCells, keywords \in BOOLEAN,
        header \in HeaderKinds, data \in DataRows}
    \union {<<>>}

\* a well-formed table; the tables of a scoresheet are numbered downwards so that
\* the sort by set number has something to do
GoodTable(i) ==
    MakeTable(<<"S", "A", "T", "Z", " ">> \o <<Digits[Len(POSITION_SLOTS) - i]>>,
              <<<<"A", " ", "U", "S", "C">>, <<"B", " ", "D", "r", "e", "s", "d", "n", "e", "r">>>>, TRUE, "full", <<FullRow>>)

GoodTables == {GoodTable(i) : i \in 1..MaxSets}

\* ExtractPositions tabulated once for the tables above
TabulatedTables == (Tables \union GoodTables) \ {<<>>}

ExtractedPositions == [t \in TabulatedTables |-> ExtractPositions(t)]

_extract_positions_from_table(table) ==
    IF table \in TabulatedTables THEN ExtractedPositions[table]
    ELSE ExtractPositions(table)

JoinedFirstRow(table) ==
    JoinWith([j \in 1..Len(table[1]) |-> _clean_cell(table[1][j])], <<" ">>)

\* JoinedFirstRow tabulated once for the tables above
FirstRowTexts == [t \in TabulatedTables |-> JoinedFirstRow(t)]

\* " ".join(_clean_cell(cell) for cell in table[0])
FirstRowText(table) ==
    IF table \in TabulatedTables THEN FirstRowTexts[table] ELSE JoinedFirstRow(table)

DigitValue(c) == (CHOOSE i \in 1..Len(Digits) : Digits[i] = c) - 1

\* the digit behind the leftmost occurrence of word in text, -1 without one
DigitBehind(text, word) ==
    LET at == {i \in 1..Len(text) :
                   /\ MatchAt(text, word, i)
                   /\ i + Len(word) <= Len(text)
                   /\ IsDigit(text[i + Len(word)])}
    IN  IF at = {} THEN 0 - 1 ELSE DigitValue(text[Least(at) + Len(word)])

\* the set number, -1 for None
_detect_set_number(table) ==
    LET normalized == Replace(FirstRowText(table), <<" ">>, <<>>)
    IN  IF DigitBehind(normalized, <<"S", "A", "T", "Z">>) >= 0 THEN DigitBehind(normalized, <<"S", "A", "T", "Z">>)
        ELSE DigitBehind(normalized, <<"S", "A", "T", "S">>)

\* _extract_team_codes: the codes and names on the first page, None when the
\* pattern is not found
TeamCodesAB == << <<"A", T_USC>>, <<"B", T_DRESDEN>> >>

TeamCodes == {None, Some(TeamCodesAB)}

\* _extract_rosters: the players listed on the scoresheet, per team code
ScoresheetRosters ==
    << <<"A", << <<<<"7">>, <<"M", "u", "s", "t", "e", "r", ",", " ", "A", "n", "n", "a">>>>, <<<<"1", "2">>, <<" ", "E", "v", "a", " ", " ", "B", "e", "i", "s", "p", "i", "e", "l", " ">>>>,
                 <<<<"3">>, <<" ", ",", " ", "C", "a", "r", "l", "a">>>> >> >>,
       <<"B", << <<<<"2">>, <<"T", "e", "s", "t">>>> >> >> >>

\* a scoresheet of up to MaxSets set tables, at most one of them arbitrary
Scoresheets ==
    {[tables |-> [i \in 1..n |-> IF i = k THEN t ELSE GoodTable(i)],
      team_codes |-> c] :
        n \in 1..MaxSets, k \in 1..MaxSets, t \in Tables, c \in TeamCodes}

(***************************************************************************)
(* lineups.py: _serialize_dataset                                          *)
(***************************************************************************)
T_DRESDEN_SPACED == <<"D", "R", "E", "S", "D", "N", "E", "R", " ", " ", "S", "C">>

LineupTeamNames == {T_USC, T_USC_ASCII, T_DRESDEN, T_DRESDEN_SPACED, T_WIESBADEN, <<>>}

_simplify_text(value) == Lower(Strip(CollapseSpaces(value)))

\* _simplify_text tabulated once for the names above
SimplifiedTeamNames == [n \in LineupTeamNames |-> _simplify_text(n)]

_simplify(value) ==
    IF value \in LineupTeamNames THEN SimplifiedTeamNames[value] ELSE _simplify_text(value)

\* the first key of team_names that satisfies test, None without one
FirstCode(team_names, test(_)) ==
    LET at == {i \in 1..Len(team_names) : test(team_names[i])}
    IN  IF at = {} THEN NULL ELSE team_names[Least(at)][1]

\* MatchLineups.usc_code
usc_code(match) ==
    FirstCode(match.team_names, LAMBDA e : Contains(_simplify(e[2]), <<"u", "s", "c">>))

\* MatchLineups.opponent_code
opponent_code(match) ==
    IF usc_code(match) = NULL THEN NULL
    ELSE FirstCode(match.team_names, LAMBDA e : e[1] # usc_code(match))

_find_team_code(team_names, target_name) ==
    FirstCode(team_names, LAMBDA e : _simplify(e[2]) = _simplify(target_name))

\* The official rosters are empty in every run of this model (collect_team_roster
\* fails and the except clause caches {}), so official_name is None or blank here
\* and the comparison of two non-empty names is not carried out.
_choose_preferred_player_name(pdf_name, official_name) ==
    LET pdf_clean == IF pdf_name = NoneText THEN <<>> ELSE Strip(pdf_name)
        official_clean == IF official_name = NoneText THEN <<>> ELSE Strip(official_name)
    IN  IF official_clean # <<>> /\ pdf_clean = <<>> THEN official_clean
        ELSE IF pdf_clean # <<>> THEN pdf_clean
        ELSE NoneText

\* text.split(sep, 1)
SplitOnce(text, sep) ==
    LET at == {i \in 1..Len(text) : text[i] = sep}
    IN  IF at = {} THEN <<text>>
        ELSE <<SubSeq(text, 1, Least(at) - 1), SubSeq(text, Least(at) + 1, Len(text))>>

_short_display_name(full_name) ==
    IF full_name = NoneText \/ full_name = <<>> THEN NoneText
    ELSE IF "," \in Range(full_name)
         THEN LET last_name == Strip(SplitOnce(full_name, ",")[1])
              IN  IF last_name = <<>> THEN NoneText ELSE last_name
    ELSE LET parts == Split(full_name)
         IN  IF parts = <<>> THEN NoneText ELSE parts[Len(parts)]

\* a or b on optional texts
OrElse(a, b) == IF a = NoneText \/ a = <<>> THEN b ELSE a

\* the entries of one team in one set: zip(POSITION_SLOTS, positions[:6]) and the
\* while loop that fills up to six
LineupEntries(positions, roster, official_roster) ==
    LET taken == Slice(positions, 6)
        zipped == Min2(Len(POSITION_SLOTS), Len(taken))
        full(number) ==
            LET chosen == _choose_preferred_player_name(
                              Lookup(roster, number, NoneText),
                              Lookup(official_roster, number, NoneText))
            IN  IF chosen = NoneText \/ chosen = <<>>
                THEN OrElse(Lookup(roster, number, NoneText),
                            Lookup(official_roster, number, NoneText))
                ELSE chosen
    IN  [k \in 1..Max2(zipped, 6) |->
            IF k <= zipped
            THEN [slot |-> POSITION_SLOTS[k], number |-> taken[k],
                  full_name |-> full(taken[k]),
                  short_name |-> _short_display_name(full(taken[k]))]
            ELSE [slot |-> POSITION_SLOTS[k], number |-> NoneText,
                  full_name |-> NoneText, short_name |-> NoneText]]

\* one element of serialized_sets
SerializeSet(match, set_lineup, home_code, away_code, roster_lookup) ==
    LET lineups ==
            [i \in 1..Len(set_lineup.lineups) |->
                LET code == set_lineup.lineups[i][1]
                    team_name == Lookup(match.team_names, code, <<>>)
                IN  <<code,
                      LineupEntries(set_lineup.lineups[i][2],
                                    Lookup(match.rosters, code, <<>>),
                                    Lookup(roster_lookup, _simplify(team_name), <<>>))>>]
        home_score == Lookup(set_lineup.scores, home_code, NoneText)
        away_score == Lookup(set_lineup.scores, away_code, NoneText)
        set_scores == match.match.set_scores
        both_codes == home_code # NULL /\ away_code # NULL
        from_sheet == both_codes /\ home_score # NoneText /\ away_score # NoneText
        from_schedule == /\ both_codes /\ ~from_sheet
                         /\ 0 < set_lineup.number /\ set_lineup.number <= Len(set_scores)
        parts == SplitOnce(set_scores[set_lineup.number], ":")
    IN  [number |-> set_lineup.number,
         lineups |-> lineups,
         scores |-> IF from_schedule /\ Len(parts) = 2
                    THEN (IF home_code = away_code THEN << <<home_code, parts[2]>> >>
                          ELSE << <<home_code, parts[1]>>, <<away_code, parts[2]>> >>)
                    ELSE set_lineup.scores,
         score_label |-> IF from_sheet THEN home_score \o <<":">> \o away_score
                         ELSE IF from_schedule THEN set_scores[set_lineup.number]
                         ELSE NoneText]

\* one element of serialized
SerializeMatch(focus, match, usc_team, opponent_team, roster_lookup) ==
    LET home_code == _find_team_code(match.team_names, match.match.home_team)
        away_code == _find_team_code(match.team_names, match.match.away_team)
        focus_code ==
            IF focus = "usc" THEN usc_code(match)
            ELSE IF focus = "opponent" /\ opponent_team # <<>>
                 THEN _find_team_code(match.team_names, opponent_team)
            ELSE NULL
    IN  [focus |-> focus,
         focus_team_code |-> focus_code,
         focus_team_name |-> Lookup(match.team_names, focus_code,
                                    IF focus = "opponent" THEN opponent_team
                                    ELSE usc_team),
         match_number |-> match.match.match_number,
         kickoff |-> match.match.kickoff,
         home_team |-> match.match.home_team,
         away_team |-> match.match.away_team,
         home_code |-> home_code,
         away_code |-> away_code,
         pdf_url |-> match.pdf_url,
         usc_code |-> usc_code(match),
         opponent_code |-> opponent_code(match),
         sets |-> [s \in 1..Len(match.sets) |->
                      SerializeSet(match, match.sets[s], home_code, away_code,
                                   roster_lookup)]]

\* The timestamp and the fields that only copy a schedule field or list the teams
\* (competition, venue, season, result, date_label, set_scores, team_codes, teams)
\* are left out of the dataset.
_serialize_dataset(matches, usc_team, opponent_team, roster_lookup) ==
    [usc_team |-> usc_team,
     opponent_team |-> opponent_team,
     matches |-> [m \in 1..Len(matches) |->
                     SerializeMatch(matches[m][1], matches[m][2], usc_team,
                                    opponent_team, roster_lookup)]]

(***************************************************************************)
(* lineups.py: extract_lineups_from_pdf followed by _serialize_dataset     *)
(***************************************************************************)
\* the schedule rows a scoresheet is merged with
SheetScheduleRows ==
    { [match_number |-> 1, kickoff |-> 1, home_team |-> T_USC,
       away_team |-> T_DRESDEN_SPACED, result_label |-> "3:1",
       set_scores |-> <<<<"2", "5", ":", "2", "0">>>>],
      [match_number |-> 2, kickoff |-> 2, home_team |-> T_WIESBADEN,
       away_team |-> T_DRESDEN, result_label |-> "3:0", set_scores |-> <<>>] }

\* lineups as any caller of _serialize_dataset may pass them: zero to seven
\* positions per team
AnyNumbers == LeftNumbers \o <<<<"1", "4">>>>

CallerLineups ==
    {<< <<"A", SubSeq(AnyNumbers, 1, a)>>, <<"B", SubSeq(AnyNumbers, 1, b)>> >> :
        a \in 0..Len(AnyNumbers), b \in 0..Len(AnyNumbers)}

\* the placeholder row of extract_lineups_from_pdf
DummyMatch(team_codes) ==
    [match_number |-> 0, kickoff |-> 0,
     home_team |-> Lookup(team_codes, "B", <<>>),
     away_team |-> Lookup(team_codes, "A", <<>>),
     result_label |-> "", set_scores |-> <<>>]

NoSheet == [tables |-> <<>>, team_codes |-> None]

InitPdf ==
    /\ pdf \in {[pc |-> "start", source |-> "pdf", sheet |-> sheet, tables |-> <<>>,
                 index |-> 1, set_lineups |-> <<>>, match |-> None, dataset |-> None]
                  : sheet \in Scoresheets}
         \union
               {[pc |-> "extracted", source |-> "caller", sheet |-> NoSheet,
                 tables |-> <<>>, index |-> 1, set_lineups |-> <<>>,
                 match |-> Some([match |-> DummyMatch(TeamCodesAB),
                                 pdf_url |-> "",
                                 team_names |-> TeamCodesAB,
                                 sets |-> <<[number |-> 1, lineups |-> lineups,
                                            scores |-> <<>>]>>,
                                 rosters |-> ScoresheetRosters]),
                 dataset |-> None]
                  : lineups \in CallerLineups}
    /\ find = Idle /\ fetch = Idle /\ mvp = Idle /\ lineup = Idle /\ cmp = Idle
    /\ run = Idle /\ stopwatch = Idle

PdfOnly == UNCHANGED <<find, fetch, mvp, lineup, cmp, run, stopwatch>>

IsSetTable(table) ==
    /\ table # <<>>
    /\ \/ Contains(FirstRowText(table), <<"S", "A", "T", "Z">>)
       \/ Contains(FirstRowText(table), <<"S", " ", "A", " ", "T", " ", "Z">>)

\* pdfplumber.open, the collection of the set tables, _extract_team_codes and
\* _extract_rosters
PdfOpen ==
    /\ pdf.pc = "start"
    /\ LET tables == Filter(pdf.sheet.tables, IsSetTable)
       IN  pdf' = IF tables = <<>> \/ pdf.sheet.team_codes = None
                  THEN [pdf EXCEPT !.pc = "raised"]
                  ELSE [pdf EXCEPT !.pc = "tables", !.tables = tables]
    /\ PdfOnly

\* one pass of the loop over the set tables
PdfExtractSet ==
    /\ pdf.pc = "tables"
    /\ pdf.index <= Len(pdf.tables)
    /\ LET table == pdf.tables[pdf.index]
           set_number == _detect_set_number(table)
           extracted == _extract_positions_from_table(table)
       IN  pdf' = IF set_number < 0 \/ extracted.lineups = <<>>
                  THEN [pdf EXCEPT !.index = @ + 1]
                  ELSE [pdf EXCEPT !.index = @ + 1,
                                   !.set_lineups =
                                       Append(@, [number |-> set_number,
                                                  lineups |-> extracted.lineups,
                                                  scores |-> extracted.scores])]
    /\ PdfOnly

\* set_lineups.sort(key=number) and the MatchLineups that is returned
PdfReturn ==
    /\ pdf.pc = "tables"
    /\ pdf.index > Len(pdf.tables)
    /\ pdf' = [pdf EXCEPT
                 !.pc = "extracted",
                 !.match = Some([match |-> DummyMatch(pdf.sheet.team_codes[1]),
                                 pdf_url |-> "",
                                 team_names |-> pdf.sheet.team_codes[1],
                                 sets |-> SortAsc(pdf.set_lineups, LAMBDA s : s.number),
                                 rosters |-> ScoresheetRosters])]
    /\ PdfOnly

merge_schedule_details(schedule_row, pdf_url, pdf_lineups) ==
    [match |-> schedule_row, pdf_url |-> pdf_url,
     team_names |-> pdf_lineups.team_names, sets |-> pdf_lineups.sets,
     rosters |-> pdf_lineups.rosters]

\* the match is merged with its schedule row and serialized
PdfSerialize ==
    /\ pdf.pc = "extracted"
    /\ \E focus \in {"usc", "opponent"}, row \in SheetScheduleRows :
          pdf' = [pdf EXCEPT
                    !.pc = "serialized",
                    !.dataset =
                        Some(_serialize_dataset(
                                 << <<focus, merge_schedule_details(row, "pdf",
                                                                    pdf.match[1])>> >>,
                                 USC_CANONICAL_NAME, T_DRESDEN, <<>>))]
    /\ PdfOnly

NextPdf == PdfOpen \/ PdfExtractSet \/ PdfReturn \/ PdfSerialize

SpecPdf == InitPdf /\ [][NextPdf]_vars

IsJerseyNumber(value) ==
    Len(value) \in {1, 2} /\ \A i \in 1..Len(value) : IsDigit(value[i])

\* the tables read so far that gave a set number and a lineup
KeptTables ==
    {i \in 1..(pdf.index - 1) :
        /\ _detect_set_number(pdf.tables[i]) >= 0
        /\ _extract_positions_from_table(pdf.tables[i]).lineups # <<>>}

\* the entries written for the positions of one team in one set
EntriesMatch(entries, positions) ==
    /\ Len(entries) = 6
    /\ \A k \in 1..6 :
          /\ entries[k].slot = POSITION_SLOTS[k]
          /\ k <= Len(positions) => entries[k].number = positions[k]
          /\ k > Len(positions) =>
                /\ entries[k].number = NoneText
                /\ entries[k].full_name = NoneText
                /\ entries[k].short_name = NoneText

\* C1: a set read from a scoresheet is kept only with two teams of exactly six
\* jersey numbers each and is dropped otherwise, and the dataset lists for every
\* team and set exactly six entries with the slots I to VI in order, the entries
\* past the known positions having no number and no names.
C1_SixPositions ==
    /\ pdf.source = "pdf" =>
          \A s \in 1..Len(pdf.set_lineups) :
             LET lineups == pdf.set_lineups[s].lineups
             IN  /\ Len(lineups) = 2
                 /\ lineups[1][1] # lineups[2][1]
                 /\ \A t \in 1..2 :
                       /\ Len(lineups[t][2]) = 6
                       /\ \A k \in 1..6 : IsJerseyNumber(lineups[t][2][k])
    /\ pdf.pc = "tables" => Len(pdf.set_lineups) = Cardinality(KeptTables)
    /\ pdf.pc = "serialized" =>
          LET sets == pdf.match[1].sets
              written == pdf.dataset[1].matches[1].sets
          IN  /\ Len(written) = Len(sets)
              /\ \A s \in 1..Len(sets) :
                    /\ Len(written[s].lineups) = Len(sets[s].lineups)
                    /\ \A t \in 1..Len(sets[s].lineups) :
                          /\ written[s].lineups[t][1] = sets[s].lineups[t][1]
                          /\ EntriesMatch(written[s].lineups[t][2],
                                          sets[s].lineups[t][2])

\* a scoresheet with a table that is dropped for an incomplete row and a table
\* that is kept, serialized
C1_Witness ==
    /\ pdf.pc = "serialized"
    /\ pdf.source = "pdf"
    /\ pdf.match[1].sets # <<>>
    /\ \E i \in 1..Len(pdf.tables) :
          /\ _detect_set_number(pdf.tables[i]) >= 0
          /\ _find_header_indices(CleanRows(pdf.tables[i])) # None
          /\ _extract_positions_from_table(pdf.tables[i]).lineups = <<>>

(***************************************************************************)
(* lineups.py: the selection of matches in build_lineup_dataset            *)
(***************************************************************************)
\* ScheduleRow.is_finished
ScheduleRow_is_finished(row) ==
    row.result_label # "" /\ row.result_label \notin {"-", "ndash"}

IsUscRow(row) ==
    \/ Contains(_simplify(row.home_team), <<"u", "s", "c">>)
    \/ Contains(_simplify(row.away_team), <<"u", "s", "c">>)

find_recent_usc_matches(rows, limit) ==
    LET usc_rows == Filter(rows, LAMBDA row : ScheduleRow_is_finished(row) /\ IsUscRow(row))
    IN  Slice(SortDesc(usc_rows, LAMBDA row : row.kickoff), limit)

\* now is the clock reading of the call
find_next_usc_home_match_row(rows, now) ==
    LET home_games == Filter(rows, LAMBDA row : /\ row.kickoff >= now
                                                /\ Contains(_simplify(row.home_team),
                                                            <<"u", "s", "c">>))
        sorted == SortAsc(home_games, LAMBDA row : row.kickoff)
    IN  IF sorted = <<>> THEN None ELSE Some(sorted[1])

find_recent_matches_for_team(rows, team_name, limit, now) ==
    IF team_name = <<>> THEN <<>>
    ELSE LET relevant ==
                 Filter(rows, LAMBDA row :
                     /\ ScheduleRow_is_finished(row)
                     /\ row.kickoff < now
                     /\ \/ _simplify(team_name) = _simplify(row.home_team)
                        \/ _simplify(team_name) = _simplify(row.away_team))
         IN  Slice(SortDesc(relevant, LAMBDA row : row.kickoff), limit)

\* The pairings of the schedule rows and the result label of a row not yet played.
LineupFixtures ==
    << [home_team |-> T_USC, away_team |-> T_DRESDEN, unplayed |-> ""],
       [home_team |-> T_DRESDEN_SPACED, away_team |-> T_USC_ASCII, unplayed |-> "-"],
       [home_team |-> T_WIESBADEN, away_team |-> T_DRESDEN, unplayed |-> "ndash"] >>

\* a row is a pairing, played or not, numbered from 0 in that order
RowKinds == {k : k \in 0..(2 * Len(LineupFixtures) - 1)}

\* the schedule lists its rows by kickoff: the row at position p kicks off at time p
ScheduleRowAt(kind, p) ==
    LET fixture == LineupFixtures[(kind \div 2) + 1]
    IN  [match_number |-> p,
         kickoff |-> p,
         home_team |-> fixture.home_team,
         away_team |-> fixture.away_team,
         result_label |-> IF kind % 2 = 1 THEN "3:1" ELSE fixture.unplayed,
         set_scores |-> <<>>]

\* parse_schedule(fetch_schedule_csv(url)): up to MaxMatches rows with distinct
\* match numbers
LineupSchedules ==
    {[p \in 1..Len(kinds) |-> ScheduleRowAt(kinds[p], p)] :
        kinds \in SeqsUpTo(RowKinds, MaxMatches)}

\* what extract_lineups_from_pdf reads from the scoresheet of a row: one well-formed
\* set table, the guest as team A and the host as team B
ParsedScoresheet(row) ==
    [match |-> DummyMatch(<< <<"A", row.away_team>>, <<"B", row.home_team>> >>),
     pdf_url |-> "",
     team_names |-> << <<"A", row.away_team>>, <<"B", row.home_team>> >>,
     sets |-> <<[number |-> _detect_set_number(GoodTable(1)),
                lineups |-> _extract_positions_from_table(GoodTable(1)).lineups,
                scores |-> _extract_positions_from_table(GoodTable(1)).scores]>>,
     rosters |-> ScoresheetRosters]

\* the output file as it was before the call
OutputBefore == [previous |-> TRUE]

\* the clock when the call starts: the last kickoff of the schedule
StartTime == MaxMatches

InitLineup ==
    /\ lineup \in {[pc |-> "start", limit |-> limit, csv_rows |-> rows,
                    now |-> StartTime, output |-> OutputBefore, error |-> NULL,
                    schedule_rows |-> None, recent_rows |-> <<>>,
                    next_home_match |-> None, opponent_rows |-> <<>>,
                    pdf_links |-> None, match_requests |-> <<>>, index |-> 1,
                    cache |-> {}, matches |-> <<>>]
                     : limit \in Limits, rows \in LineupSchedules}
    /\ find = Idle /\ fetch = Idle /\ mvp = Idle /\ pdf = Idle /\ cmp = Idle
    /\ run = Idle /\ stopwatch = Idle

LineupOnly == UNCHANGED <<find, fetch, mvp, pdf, cmp, run, stopwatch>>

Raise(state, error) == [state EXCEPT !.pc = "raised", !.error = error]

\* csv_text = fetch_schedule_csv(...); schedule_rows = parse_schedule(csv_text)
LineupFetchSchedule ==
    /\ lineup.pc = "start"
    /\ \E ok \in BOOLEAN :
          lineup' = IF ok
                     THEN [lineup EXCEPT !.pc = "recent", !.schedule_rows = Some(lineup.csv_rows)]
                     ELSE Raise(lineup, "HTTPError")
    /\ LineupOnly

\* recent_rows = find_recent_usc_matches(...) and the check that follows
LineupFindRecent ==
    /\ lineup.pc = "recent"
    /\ LET recent_rows == find_recent_usc_matches(lineup.schedule_rows[1], lineup.limit)
       IN  lineup' = IF recent_rows = <<>> THEN Raise(lineup, "RuntimeError")
                     ELSE [lineup EXCEPT !.pc = "next", !.recent_rows = recent_rows]
    /\ LineupOnly

\* next_home_match = find_next_usc_home_match_row(...) and the check that follows
LineupFindNextHome ==
    /\ lineup.pc = "next"
    /\ LET next_home_match == find_next_usc_home_match_row(lineup.schedule_rows[1],
                                                            lineup.now)
       IN  lineup' = IF next_home_match = None THEN Raise(lineup, "RuntimeError")
                     ELSE [lineup EXCEPT !.pc = "opponent",
                                         !.next_home_match = next_home_match]
    /\ LineupOnly

\* the link of the scoresheet of a match on the schedule page
PdfUrl(match_number) == "pdf/" \o ToString(match_number)

MatchNumbers(rows) == {rows[i].match_number : i \in 1..Len(rows)}

\* opponent_rows, pdf_links and match_requests.  find_recent_matches_for_team reads
\* the clock again, which may have moved on; the schedule page lacks the link of at
\* most one match, or cannot be loaded.
LineupFindOpponent ==
    /\ lineup.pc = "opponent"
    /\ \E now \in {lineup.now, lineup.now + 1}, page_loaded \in BOOLEAN,
          missing \in {{}} \union {{n} : n \in MatchNumbers(lineup.schedule_rows[1])} :
          LET opponent_rows ==
                  find_recent_matches_for_team(lineup.schedule_rows[1],
                                               lineup.next_home_match[1].away_team,
                                               lineup.limit, now)
              match_requests ==
                  [i \in 1..Len(lineup.recent_rows) |-> <<"usc", lineup.recent_rows[i]>>]
                  \o [i \in 1..Len(opponent_rows) |-> <<"opponent", opponent_rows[i]>>]
              found == [lineup EXCEPT !.now = now, !.opponent_rows = opponent_rows]
          IN  lineup' =
                  IF ~page_loaded THEN Raise(found, "HTTPError")
                  ELSE IF match_requests = <<>> THEN Raise(found, "RuntimeError")
                  ELSE [found EXCEPT
                          !.pc = "loop",
                          !.pdf_links = Some(MatchNumbers(lineup.schedule_rows[1]) \ missing),
                          !.match_requests = match_requests]
    /\ LineupOnly

\* faulty variant: a match without a scoresheet link is left out
OnMissingPdfLinkSkip(state) == [state EXCEPT !.index = @ + 1]

\* if not pdf_url: raise RuntimeError
OnMissingPdfLink(state) == Raise(state, "RuntimeError")

\* one pass of the loop over match_requests; the download or the parsing of a
\* scoresheet not yet in the cache may fail
LineupProcessRequest ==
    /\ lineup.pc = "loop"
    /\ lineup.index <= Len(lineup.match_requests)
    /\ LET focus == lineup.match_requests[lineup.index][1]
           row == lineup.match_requests[lineup.index][2]
           appended ==
               [lineup EXCEPT
                  !.index = @ + 1,
                  !.cache = @ \union {row.match_number},
                  !.matches = Append(@, <<focus,
                                          merge_schedule_details(
                                              row, PdfUrl(row.match_number),
                                              ParsedScoresheet(row))>>)]
       IN  IF row.match_number \notin lineup.pdf_links[1]
           THEN lineup' = OnMissingPdfLink(lineup)
           ELSE IF row.match_number \in lineup.cache
           THEN lineup' = appended
           ELSE \E outcome \in {"ok", "HTTPError", "ValueError"} :
                   lineup' = IF outcome = "ok" THEN appended
                             ELSE Raise(lineup, outcome)
    /\ LineupOnly

\* the roster lookups, _serialize_dataset and output_path.write_text
LineupWriteOutput ==
    /\ lineup.pc = "loop"
    /\ lineup.index > Len(lineup.match_requests)
    /\ lineup' = [lineup EXCEPT
                    !.pc = "done",
                    !.output = [dataset |->
                                   _serialize_dataset(
                                       lineup.matches, USC_CANONICAL_NAME,
                                       lineup.next_home_match[1].away_team, <<>>)]]
    /\ LineupOnly

NextLineup ==
    \/ LineupFetchSchedule
    \/ LineupFindRecent
    \/ LineupFindNextHome
    \/ LineupFindOpponent
    \/ LineupProcessRequest
    \/ LineupWriteOutput

SpecLineup == InitLineup /\ [][NextLineup]_vars

WrittenMatches == lineup.output.dataset.matches

\* the entry of the dataset is the row of the schedule with its match number
IsScheduleRow(entry, row) ==
    /\ entry.match_number = row.match_number
    /\ entry.kickoff = row.kickoff
    /\ entry.home_team = row.home_team
    /\ entry.away_team = row.away_team

IsOpponentRow(row) ==
    LET opponent == lineup.next_home_match[1].away_team
    IN  /\ ScheduleRow_is_finished(row)
        /\ row.kickoff < lineup.now
        /\ \/ _simplify(opponent) = _simplify(row.home_team)
           \/ _simplify(opponent) = _simplify(row.away_team)

\* the list is a block of at most `wanted` finished USC matches with focus "usc"
\* followed by a block of at most `wanted` matches of the opponent with focus
\* "opponent", each block newest first and without repetition
MatchesListed(wanted) ==
    LET listed == WrittenMatches
        rows == lineup.schedule_rows[1]
        usc == {i \in 1..Len(listed) : listed[i].focus = "usc"}
        opponent == {i \in 1..Len(listed) : listed[i].focus = "opponent"}
    IN  /\ usc \union opponent = 1..Len(listed)
        /\ \A i \in usc, j \in opponent : i < j
        /\ Cardinality(usc) <= wanted
        /\ Cardinality(opponent) <= wanted
        /\ \A i \in usc :
              \E r \in 1..Len(rows) :
                 /\ IsScheduleRow(listed[i], rows[r])
                 /\ ScheduleRow_is_finished(rows[r])
                 /\ IsUscRow(rows[r])
        /\ \A i \in opponent :
              \E r \in 1..Len(rows) :
                 /\ IsScheduleRow(listed[i], rows[r])
                 /\ IsOpponentRow(rows[r])
        /\ \A i, j \in 1..Len(listed) :
              i < j /\ listed[i].focus = listed[j].focus =>
                 /\ listed[i].kickoff >= listed[j].kickoff
                 /\ listed[i].match_number # listed[j].match_number

\* C8: the matches of the written dataset are at most `limit` finished USC matches
\* with focus "usc", newest first, followed by at most `limit` matches with focus
\* "opponent" that are finished, kicked off before now and involve the away team of
\* the next USC home match, newest first, and nothing else.  A limit below zero is
\* read as zero.
C8_MatchesList == lineup.pc = "done" => MatchesListed(Max2(lineup.limit, 0))

\* the same for the limits from zero on
C8_MatchesListNonNegativeLimit ==
    lineup.pc = "done" /\ lineup.limit >= 0 => MatchesListed(lineup.limit)

HasFinishedUscMatch ==
    \E r \in 1..Len(lineup.schedule_rows[1]) :
       /\ ScheduleRow_is_finished(lineup.schedule_rows[1][r])
       /\ IsUscRow(lineup.schedule_rows[1][r])

HasFutureUscHomeMatch ==
    \E r \in 1..Len(lineup.schedule_rows[1]) :
       /\ lineup.schedule_rows[1][r].kickoff >= StartTime
       /\ Contains(_simplify(lineup.schedule_rows[1][r].home_team), <<"u", "s", "c">>)

HasLink(request) == request[2].match_number \in lineup.pdf_links[1]

\* a requested match has no scoresheet link on the schedule page
SomeLinkMissing ==
    /\ lineup.pdf_links # None
    /\ \E i \in 1..Len(lineup.match_requests) : ~HasLink(lineup.match_requests[i])

\* the loop has reached a requested match without a link
MissingLinkReached ==
    /\ lineup.pdf_links # None
    /\ lineup.index <= Len(lineup.match_requests)
    /\ ~HasLink(lineup.match_requests[lineup.index])

\* the output is as before the call until the call is done, and it is done only
\* with the scoresheet of every requested match found, downloaded and parsed
WrittenLast ==
    /\ lineup.pc # "done" => lineup.output = OutputBefore
    /\ lineup.pc = "done" =>
          /\ lineup.output # OutputBefore
          /\ Len(lineup.matches) = Len(lineup.match_requests)
          /\ \A i \in 1..Len(lineup.match_requests) :
                /\ HasLink(lineup.match_requests[i])
                /\ lineup.match_requests[i][2].match_number \in lineup.cache

\* with the schedule loaded and one of the conditions true the call is never done,
\* and where it has raised, it has raised RuntimeError
RaisesRuntimeError(condition) ==
    lineup.schedule_rows # None /\ condition =>
        /\ lineup.pc # "done"
        /\ lineup.pc = "raised" => lineup.error = "RuntimeError"

\* C9 as stated: the output is written only after the scoresheet of every requested
\* match was found, downloaded and parsed; without a finished USC match, without a
\* future USC home match or with any requested match without a PDF link the call
\* raises RuntimeError and the output file stays as it was.
C9_AnyMissingLinkRaisesRuntimeError ==
    /\ WrittenLast
    /\ RaisesRuntimeError(~HasFinishedUscMatch)
    /\ RaisesRuntimeError(~HasFutureUscHomeMatch)
    /\ RaisesRuntimeError(SomeLinkMissing)

\* C9 amended: as stated, except that with a requested match without a PDF link
\* the call raises RuntimeError when the loop reaches that match; the failed
\* download or parsing of an earlier scoresheet raises its own error first.  The
\* output file stays as it was in every case.
C9_OutputWrittenLast ==
    /\ WrittenLast
    /\ RaisesRuntimeError(~HasFinishedUscMatch)
    /\ RaisesRuntimeError(~HasFutureUscHomeMatch)
    /\ SomeLinkMissing => lineup.pc # "done"
    /\ RaisesRuntimeError(MissingLinkReached)

\* the loop has taken a scoresheet and then raised on a match without a link
C9_Witness ==
    /\ lineup.pc = "raised"
    /\ lineup.error = "RuntimeError"
    /\ MissingLinkReached
    /\ lineup.matches # <<>>
    /\ lineup.output = OutputBefore

(***************************************************************************)
(* update_direct_comparisons.py: reading one row of a schedule export      *)
(***************************************************************************)
USC_KEYWORD == <<"u", "s", "c">>

\* unicodedata.normalize("NFKD", c) without the combining characters, casefolded
CasefoldChar(c) ==
    CASE c \in {"auml", "Auml"} -> <<"a">>
      [] c \in {"ouml", "Ouml"} -> <<"o">>
      [] c \in {"uuml", "Uuml"} -> <<"u">>
      [] c = "szlig" -> <<"s", "s">>
      [] c = "nbsp" -> <<" ">>
      [] OTHER -> <<LowerChar(c)>>

_normalize(value) == Concat([i \in 1..Len(value) |-> CasefoldChar(value[i])])

IsUscTeamText(name) == name # <<>> /\ Contains(_normalize(name), USC_KEYWORD)

\* the value of a run of decimal digits
RECURSIVE DigitsValue(_)
DigitsValue(text) ==
    IF text = <<>> THEN 0
    ELSE 10 * DigitsValue(SubSeq(text, 1, Len(text) - 1)) + DigitValue(text[Len(text)])

AllDigits(text) == text # <<>> /\ \A i \in 1..Len(text) : IsDigit(text[i])

\* int(text): surrounding whitespace and one sign are accepted; None stands for
\* ValueError
ParseInt(text) ==
    LET body == Strip(text)
    IN  IF body # <<>> /\ Head(body) \in {"+", "-"}
        THEN (IF AllDigits(Tail(body))
              THEN Some(IF Head(body) = "-" THEN 0 - DigitsValue(Tail(body))
                        ELSE DigitsValue(Tail(body)))
              ELSE None)
        ELSE IF AllDigits(body) THEN Some(DigitsValue(body)) ELSE None

PairOf(left, right) ==
    IF left = None \/ right = None THEN None ELSE Some(<<left[1], right[1]>>)

PairOfParts(parts) == PairOf(ParseInt(Strip(parts[1])), ParseInt(Strip(parts[2])))

parse_pair(value) ==
    IF value = <<>> THEN None
    ELSE IF Strip(value) = <<>> \/ ":" \notin Range(Strip(value)) THEN None
    ELSE PairOfParts(SplitOnce(Strip(value), ":"))

\* the part of "sets / points" that is asked for, None without a "/"
PartOf(text, k) ==
    IF text # <<>> /\ "/" \in Range(text) THEN parse_pair(SplitOnce(text, "/")[k]) ELSE None

FirstPair(direct, ergebnis, combined) ==
    IF direct # None THEN direct
    ELSE IF ergebnis # None THEN ergebnis
    ELSE combined

ExtractSets(row) ==
    FirstPair(parse_pair(row.Satzpunkte), PartOf(row.Ergebnis, 1), PartOf(row.Combined, 1))

ExtractPoints(row) ==
    FirstPair(parse_pair(row.Ballpunkte), PartOf(row.Ergebnis, 2), PartOf(row.Combined, 2))

\* calendar.monthrange
IsLeapYear(year) == year % 4 = 0 /\ (year % 100 # 0 \/ year % 400 = 0)

DaysInMonth(year, month) ==
    IF month = 2 THEN (IF IsLeapYear(year) THEN 29 ELSE 28)
    ELSE IF month \in {4, 6, 9, 11} THEN 30 ELSE 31

\* n written with at least `width` digits
RECURSIVE ZeroPadded(_, _)
ZeroPadded(n, width) ==
    IF n < 10 /\ width <= 1 THEN <<Digits[n + 1]>>
    ELSE Append(ZeroPadded(n \div 10, width - 1), Digits[(n % 10) + 1])

\* date.isoformat()
IsoFormat(year, month, day) ==
    ZeroPadded(year, 4) \o <<"-">> \o ZeroPadded(month, 2) \o <<"-">> \o ZeroPadded(day, 2)

\* the fields %d, %m and %Y of strptime: one or two digits, one or two digits,
\* four digits
DateFieldsOk(parts) ==
    /\ Len(parts) = 3
    /\ AllDigits(parts[1]) /\ Len(parts[1]) <= 2
    /\ AllDigits(parts[2]) /\ Len(parts[2]) <= 2
    /\ AllDigits(parts[3]) /\ Len(parts[3]) = 4

DateOf(year, month, day) ==
    IF year >= 1 /\ month \in 1..12 /\ day >= 1 /\ day <= DaysInMonth(year, month)
    THEN IsoFormat(year, month, day)
    ELSE NoneText

\* str.split("."): every part between two dots
RECURSIVE SplitAll(_, _)
SplitAll(text, sep) ==
    IF sep \notin Range(text) THEN <<text>>
    ELSE <<SplitOnce(text, sep)[1]>> \o SplitAll(SplitOnce(text, sep)[2], sep)

StrpDate(parts) ==
    IF DateFieldsOk(parts)
    THEN DateOf(DigitsValue(parts[3]), DigitsValue(parts[2]), DigitsValue(parts[1]))
    ELSE NoneText

\* datetime.strptime(value, "%d.%m.%Y").date().isoformat(), NoneText for None
ParseDate(value) ==
    IF value = <<>> \/ Strip(value) = <<>> THEN NoneText
    ELSE StrpDate(SplitAll(Strip(value), "."))

CompareRow(id, datum, home, away, satzpunkte, ballpunkte, ergebnis, combined) ==
    [id |-> id, Datum |-> datum, Mannschaft1 |-> home, Mannschaft2 |-> away,
     Satzpunkte |-> satzpunkte, Ballpunkte |-> ballpunkte, Ergebnis |-> ergebnis,
     Combined |-> combined]

\* a home win, an away defeat in five sets, an away win whose result is only in
\* "Ergebnis", a home defeat without number and date whose result is only in
\* "Austragungsort/Ergebnis", a match of two other teams, a match that is not
\* played yet, and a second row with the number of the first one
CompareRows ==
    {CompareRow(<<"1", "0", "0", "1">>, <<"0", "5", ".", "1", "0", ".", "2", "0", "2", "4">>, T_USC, T_DRESDEN, <<"3", ":", "1">>, <<"9", "8", ":", "8", "5">>, <<>>, <<>>),
     CompareRow(<<" ", "1", "0", "0", "2">>, <<"2", "8", ".", "0", "9", ".", "2", "0", "2", "4">>, T_DRESDEN, T_USC, <<"3", ":", "2">>, <<>>, <<>>, <<>>),
     CompareRow(<<"9", "9", "9">>, <<"1", ".", "2", ".", "2", "0", "2", "5">>, T_DRESDEN, T_USC_ASCII, <<>>, <<>>, <<"0", ":", "3", " ", "/", " ", "5", "0", ":", "7", "5">>, <<>>),
     CompareRow(<<>>, <<>>, T_USC, T_DRESDEN, <<>>, <<>>, <<>>, <<"2", ":", "3", " ", "/", " ", "9", "0", ":", "9", "9">>),
     CompareRow(<<"1", "0", "0", "3">>, <<"0", "5", ".", "1", "0", ".", "2", "0", "2", "4">>, T_DRESDEN, T_WIESBADEN, <<"3", ":", "0">>, <<"7", "5", ":", "6", "0">>, <<>>, <<>>),
     CompareRow(<<"1", "0", "0", "4">>, <<"3", "1", ".", "0", "2", ".", "2", "0", "2", "5">>, T_USC, T_WIESBADEN, <<>>, <<>>, <<>>, <<>>),
     CompareRow(<<"1", "0", "0", "1">>, <<"3", "1", ".", "1", "1", ".", "2", "0", "2", "4">>, T_WIESBADEN, T_USC, <<"1", ":", "3">>, <<"8", "0", ":", "9", "5">>, <<>>, <<>>)}

OlderSeasonRows ==
    <<CompareRow(<<"1", "0", "0", "1">>, <<"1", "1", ".", "0", "3", ".", "2", "0", "2", "3">>, T_USC, T_DRESDEN, <<"3", ":", "0">>, <<"7", "5", ":", "5", "0">>, <<>>, <<>>),
      CompareRow(<<"1", "0", "0", "2">>, <<" ", "0", "4", ".", "0", "3", ".", "2", "0", "2", "3", " ">>, T_WIESBADEN, T_USC, <<"-", " ", ":", " ", "3">>, <<>>, <<"3", ":", "0", " ", "/", " ", "7", "5", ":", "4", "1">>, <<>>)>>

\* The rows above are read once: what the functions return for them is tabulated.
TabulatedRows == CompareRows \cup Range(OlderSeasonRows)

TabulatedTexts ==
    UNION {{row.Datum, row.Mannschaft1, row.Mannschaft2} : row \in TabulatedRows}

UscTeamTexts == {name \in TabulatedTexts : IsUscTeamText(name)}

is_usc_team(name) ==
    IF name \in TabulatedTexts THEN name \in UscTeamTexts ELSE IsUscTeamText(name)

ExtractedSets == [row \in TabulatedRows |-> ExtractSets(row)]

extract_sets(row) == IF row \in TabulatedRows THEN ExtractedSets[row] ELSE ExtractSets(row)

ExtractedPoints == [row \in TabulatedRows |-> ExtractPoints(row)]

extract_points(row) ==
    IF row \in TabulatedRows THEN ExtractedPoints[row] ELSE ExtractPoints(row)

ParsedDates == [value \in TabulatedTexts |-> ParseDate(value)]

parse_date(value) == IF value \in TabulatedTexts THEN ParsedDates[value] ELSE ParseDate(value)

(***************************************************************************)
(* update_direct_comparisons.build_dataset: one row, one season            *)
(***************************************************************************)
\* the characters of the model in code point order
CodePointOrder ==
    <<"\t", "\n", " ", "(", ")", "+", ",", "-", ".", "/">> \o Digits \o <<":">>
    \o SubSeq(UpperChars, 1, 26) \o <<"_">> \o SubSeq(LowerChars, 1, 26)
    \o <<"nbsp", "Auml", "Ouml", "Uuml", "szlig", "auml", "ouml", "uuml", "ndash">>

CodePoint(c) == CHOOSE i \in 1..Len(CodePointOrder) : CodePointOrder[i] = c

\* a < b on str
RECURSIVE StrLess(_, _)
StrLess(a, b) ==
    IF b = <<>> THEN FALSE
    ELSE IF a = <<>> THEN TRUE
    ELSE IF Head(a) = Head(b) THEN StrLess(Tail(a), Tail(b))
    ELSE CodePoint(Head(a)) < CodePoint(Head(b))

\* a <= b on tuples of two str
PairLeq(a, b) == StrLess(a[1], b[1]) \/ (a[1] = b[1] /\ ~StrLess(b[2], a[2]))

\* Stable sort by a comparison: leq[i][j] says that element i is at most element j.
RECURSIVE InsertByOrder(_, _, _)
InsertByOrder(sorted, i, leq) ==
    IF sorted = <<>> THEN <<i>>
    ELSE IF leq[Head(sorted)][i]
         THEN <<Head(sorted)>> \o InsertByOrder(Tail(sorted), i, leq)
         ELSE <<i>> \o sorted

RECURSIVE OrderBy(_, _)
OrderBy(leq, n) == IF n = 0 THEN <<>> ELSE InsertByOrder(OrderBy(leq, n - 1), n, leq)

Permuted(s, order) == [i \in 1..Len(s) |-> s[order[i]]]

SortBy(s, leq(_, _)) ==
    Permuted(s, OrderBy([i \in 1..Len(s) |-> [j \in 1..Len(s) |-> leq(s[i], s[j])]], Len(s)))

\* value or None / value or "" on a text
OrNone(text) == IF text = <<>> THEN NoneText ELSE text

OrEmpty(text) == IF text = NoneText THEN <<>> ELSE text

\* sets_pair if usc_is_home else (sets_pair[1], sets_pair[0])
Oriented(pair, usc_is_home) == IF usc_is_home THEN pair ELSE <<pair[2], pair[1]>>

OrientedPoints(points_pair, usc_is_home, k) ==
    IF points_pair = None THEN None ELSE Some(Oriented(points_pair[1], usc_is_home)[k])

\* the dict passed to clean_dict; a key that clean_dict removes holds NoneText
\* (texts) or None (points). round, competition, location, set_scores and result
\* are copied from the row and left out.
MatchRecord(row, sets, points_pair, usc_is_home) ==
    [match_id |-> OrNone(Strip(row.id)),
     date |-> parse_date(row.Datum),
     home_team |-> OrNone(row.Mannschaft1),
     away_team |-> OrNone(row.Mannschaft2),
     usc_sets |-> sets[1],
     opponent_sets |-> sets[2],
     usc_points |-> OrientedPoints(points_pair, usc_is_home, 1),
     opponent_points |-> OrientedPoints(points_pair, usc_is_home, 2),
     usc_won |-> sets[1] > sets[2]]

EmptySummary ==
    [matches_played |-> 0, usc_wins |-> 0, usc_losses |-> 0, usc_sets_for |-> 0,
     usc_sets_against |-> 0, usc_points_for |-> 0, usc_points_against |-> 0]

EmptyBucket(opponent_name) ==
    [team |-> opponent_name, matches |-> <<>>, summary |-> EmptySummary]

PointsOr0(points) == IF points = None THEN 0 ELSE points[1]

\* lines 261-270
Counted(summary, record) ==
    [matches_played |-> summary.matches_played + 1,
     usc_wins |-> summary.usc_wins
                    + (IF record.usc_sets > record.opponent_sets THEN 1 ELSE 0),
     usc_losses |-> summary.usc_losses
                    + (IF record.usc_sets > record.opponent_sets THEN 0 ELSE 1),
     usc_sets_for |-> summary.usc_sets_for + record.usc_sets,
     usc_sets_against |-> summary.usc_sets_against + record.opponent_sets,
     usc_points_for |-> summary.usc_points_for + PointsOr0(record.usc_points),
     usc_points_against |-> summary.usc_points_against
                              + PointsOr0(record.opponent_points)]

AddToBucket(bucket, record) ==
    [team |-> bucket.team, matches |-> Append(bucket.matches, record),
     summary |-> Counted(bucket.summary, record)]

\* opponents.setdefault(opponent_name, {...}): the dict keeps insertion order
SetDefault(opponents, opponent_name) ==
    IF \E i \in 1..Len(opponents) : opponents[i].team = opponent_name
    THEN opponents
    ELSE Append(opponents, EmptyBucket(opponent_name))

AddMatch(opponents, opponent_name, record) ==
    [i \in 1..Len(opponents) |->
        IF opponents[i].team = opponent_name THEN AddToBucket(opponents[i], record)
        ELSE opponents[i]]

\* lines 187-270 for a row that is kept
Recorded(opponents, row, usc_is_home) ==
    AddMatch(SetDefault(opponents, IF usc_is_home THEN row.Mannschaft2 ELSE row.Mannschaft1),
             IF usc_is_home THEN row.Mannschaft2 ELSE row.Mannschaft1,
             MatchRecord(row, Oriented(extract_sets(row)[1], usc_is_home),
                         extract_points(row), usc_is_home))

\* lines 176-185: the rows that `continue` skips
IsSkipped(row, seen_match_ids) ==
    \/ ~(is_usc_team(row.Mannschaft1) \/ is_usc_team(row.Mannschaft2))
    \/ extract_sets(row) = None
    \/ Strip(row.id) # <<>> /\ Strip(row.id) \in seen_match_ids

SeenAfter(row, seen_match_ids) ==
    IF Strip(row.id) # <<>> THEN seen_match_ids \cup {Strip(row.id)} ELSE seen_match_ids

\* the key of line 273
MatchSortKey(item) == <<OrEmpty(item.date), OrEmpty(item.match_id)>>

MatchLeq(a, b) == PairLeq(MatchSortKey(a), MatchSortKey(b))

\* faulty variant: the matches stay in the order of the rows
Unsorted(matches) == matches

\* payload["matches"].sort(key=...)
SortedMatches(matches) == SortBy(matches, MatchLeq)

TeamLeq(a, b) == ~StrLess(b.team, a.team)

SortedBucket(bucket) ==
    [team |-> bucket.team, summary |-> bucket.summary,
     matches |-> SortedMatches(bucket.matches)]

\* lines 272-281: sorted(opponents.items()) orders by the team name, which is
\* the key of the dict
OpponentsList(opponents) ==
    SortBy([i \in 1..Len(opponents) |-> SortedBucket(opponents[i])], TeamLeq)

(***************************************************************************)
(* update_direct_comparisons.build_dataset as a state machine              *)
(***************************************************************************)
\* the rows of one season that the exports hold together
MaxSeasonRows == 3

\* SEASON_SOURCES: a season with two exports and a season with one
CompareSources ==
    <<[season |-> "2023/24", urls |-> <<"766160508", "766160398">>],
      [season |-> "2022/23", urls |-> <<"758959411">>]>>

\* what the server holds: the rows of the first season are split over its two exports
ServerWith(rows, k) ==
    [url \in {"766160508", "766160398", "758959411"} |->
        CASE url = "766160508" -> SubSeq(rows, 1, k)
          [] url = "766160398" -> SubSeq(rows, k + 1, Len(rows))
          [] OTHER -> OlderSeasonRows]

CompareServers ==
    UNION {{ServerWith(rows, k) : k \in 0..Len(rows)}
             : rows \in SeqsUpTo(CompareRows, MaxSeasonRows)}

InitCompare ==
    /\ cmp \in {[pc |-> "fetch", server |-> server, source |-> 1, url |-> 1,
                 rows |-> <<>>, opponents |-> <<>>, seen_match_ids |-> {},
                 seasons_payload |-> <<>>, error |-> NULL]
                  : server \in CompareServers}
    /\ find = Idle /\ fetch = Idle /\ mvp = Idle /\ lineup = Idle /\ pdf = Idle
    /\ run = Idle /\ stopwatch = Idle

CompareOnly == UNCHANGED <<find, fetch, mvp, lineup, pdf, run, stopwatch>>

CurrentUrl == CompareSources[cmp.source].urls[cmp.url]

\* fetch_csv_rows(url): raise_for_status() may raise
CmpFetchCsvRows ==
    /\ cmp.pc = "fetch"
    /\ \E ok \in BOOLEAN :
          cmp' = IF ok THEN [cmp EXCEPT !.pc = "rows", !.rows = cmp.server[CurrentUrl]]
                 ELSE [cmp EXCEPT !.pc = "raised", !.error = "HTTPError"]
    /\ CompareOnly

\* one pass of the loop over the rows of an export (lines 173-270)
CmpProcessRow ==
    /\ cmp.pc = "rows"
    /\ cmp.rows # <<>>
    /\ cmp' = IF IsSkipped(Head(cmp.rows), cmp.seen_match_ids)
              THEN [cmp EXCEPT !.rows = Tail(cmp.rows)]
              ELSE [cmp EXCEPT !.rows = Tail(cmp.rows),
                               !.seen_match_ids = SeenAfter(Head(cmp.rows), @),
                               !.opponents = Recorded(@, Head(cmp.rows),
                                               is_usc_team(Head(cmp.rows).Mannschaft1))]
    /\ CompareOnly

\* the export is exhausted and the season has another one
CmpNextUrl ==
    /\ cmp.pc = "rows"
    /\ cmp.rows = <<>>
    /\ cmp.url < Len(CompareSources[cmp.source].urls)
    /\ cmp' = [cmp EXCEPT !.pc = "fetch", !.url = @ + 1]
    /\ CompareOnly

\* the last export of the season is exhausted: lines 271-287, then the next
\* source with fresh opponents and seen_match_ids, or the return
CmpFinishSeason ==
    /\ cmp.pc = "rows"
    /\ cmp.rows = <<>>
    /\ cmp.url = Len(CompareSources[cmp.source].urls)
    /\ cmp' = [cmp EXCEPT
                 !.seasons_payload =
                     Append(@, [season |-> CompareSources[cmp.source].season,
                                opponents |-> OpponentsList(cmp.opponents)]),
                 !.opponents = <<>>,
                 !.seen_match_ids = {},
                 !.url = 1,
                 !.source = Min2(cmp.source + 1, Len(CompareSources)),
                 !.pc = IF cmp.source < Len(CompareSources) THEN "fetch" ELSE "done"]
    /\ CompareOnly

NextCompare ==
    \/ CmpFetchCsvRows
    \/ CmpProcessRow
    \/ CmpNextUrl
    \/ CmpFinishSeason

SpecCompare == InitCompare /\ [][NextCompare]_vars

(***************************************************************************)
(* The head-to-head records                                                *)
(***************************************************************************)
RECURSIVE SumSeq(_)
SumSeq(numbers) == IF numbers = <<>> THEN 0 ELSE Head(numbers) + SumSeq(Tail(numbers))

\* the rows that the exports of source number s hold, in the order of reading
RECURSIVE ExportRows(_, _)
ExportRows(s, u) ==
    IF u > Len(CompareSources[s].urls) THEN <<>>
    ELSE cmp.server[CompareSources[s].urls[u]] \o ExportRows(s, u + 1)

\* the sets of the row seen from USC: <<sets of USC, sets of the other team>>
UscSideSets(row) ==
    IF is_usc_team(row.Mannschaft1) THEN extract_sets(row)[1]
    ELSE <<extract_sets(row)[1][2], extract_sets(row)[1][1]>>

OtherTeam(row) == IF is_usc_team(row.Mannschaft1) THEN row.Mannschaft2 ELSE row.Mannschaft1

\* the listed match is the row, with the sets counted for USC
IsRowOf(entry, match, row) ==
    /\ is_usc_team(row.Mannschaft1) \/ is_usc_team(row.Mannschaft2)
    /\ extract_sets(row) # None
    /\ match.match_id = OrNone(Strip(row.id))
    /\ match.home_team = OrNone(row.Mannschaft1)
    /\ match.away_team = OrNone(row.Mannschaft2)
    /\ match.date = parse_date(row.Datum)
    /\ entry.team = OtherTeam(row)
    /\ match.usc_sets = UscSideSets(row)[1]
    /\ match.opponent_sets = UscSideSets(row)[2]

\* 2024-10-05 as the number 20241005
DateNumber(iso) == DigitsValue(Filter(iso, LAMBDA c : IsDigit(c)))

Chronological(matches) ==
    \A i, j \in 1..Len(matches) :
        i < j /\ matches[i].date # NoneText /\ matches[j].date # NoneText
        => DateNumber(matches[i].date) <= DateNumber(matches[j].date)

SummaryAgrees(entry) ==
    /\ entry.summary.matches_played = Len(entry.matches)
    /\ entry.summary.matches_played = entry.summary.usc_wins + entry.summary.usc_losses
    /\ entry.summary.usc_sets_for
         = SumSeq([i \in 1..Len(entry.matches) |-> entry.matches[i].usc_sets])
    /\ entry.summary.usc_sets_against
         = SumSeq([i \in 1..Len(entry.matches) |-> entry.matches[i].opponent_sets])

EntryAgrees(s, entry) ==
    /\ SummaryAgrees(entry)
    /\ \A i \in 1..Len(entry.matches) :
          /\ entry.matches[i].usc_won
               <=> entry.matches[i].usc_sets > entry.matches[i].opponent_sets
          /\ \E k \in 1..Len(ExportRows(s, 1)) :
                IsRowOf(entry, entry.matches[i], ExportRows(s, 1)[k])
    /\ Chronological(entry.matches)

\* C10: in the dataset of build_dataset every opponent entry of every season has
\* matches_played equal to the number of its listed matches and to usc_wins +
\* usc_losses, usc_sets_for and usc_sets_against equal to the sums of usc_sets and
\* opponent_sets over its listed matches, every listed match has usc_won exactly
\* when usc_sets > opponent_sets, where usc_sets are the sets of the USC side of
\* the row whether USC is the home or the away team, and the matches that have a
\* date are listed in the order of their dates.
C10_HeadToHeadConsistent ==
    cmp.pc # "idle" =>
        \A s \in 1..Len(cmp.seasons_payload) :
            \A e \in 1..Len(cmp.seasons_payload[s].opponents) :
                EntryAgrees(s, cmp.seasons_payload[s].opponents[e])

\* the dataset is returned, and an opponent of the first season has two matches
\* with different dates that were read in the other order, one of them with USC
\* as the away team
C10_Witness ==
    /\ cmp.pc = "done"
    /\ \E e \in 1..Len(cmp.seasons_payload[1].opponents) :
          \E i, j \in 1..Len(cmp.seasons_payload[1].opponents[e].matches) :
             \E p, q \in 1..Len(ExportRows(1, 1)) :
                /\ i < j /\ q < p
                /\ IsRowOf(cmp.seasons_payload[1].opponents[e],
                           cmp.seasons_payload[1].opponents[e].matches[i],
                           ExportRows(1, 1)[p])
                /\ IsRowOf(cmp.seasons_payload[1].opponents[e],
                           cmp.seasons_payload[1].opponents[e].matches[j],
                           ExportRows(1, 1)[q])
                /\ cmp.seasons_payload[1].opponents[e].matches[i].date # NoneText
                /\ cmp.seasons_payload[1].opponents[e].matches[i].date
                     # cmp.seasons_payload[1].opponents[e].matches[j].date
                /\ is_usc_team(cmp.seasons_payload[1].opponents[e].matches[i].away_team)

(***************************************************************************)
(* report.build_html_report: the stopwatch script of the report page       *)
(***************************************************************************)
\* how often the clock moves on in one run of the model
MaxTicks == 4

\* what the clock gains between two events, in milliseconds
ClockSteps == {999, 1000, 59000}

\* what the clock gains between two calls of Date.now() in one handler
ReadGaps == {0, 1}

\* Date.now() when the page is loaded
LoadTimes == {1, 500}

\* String(n).padStart(2, '0') for minutes and seconds
formatTime(totalMs) ==
    ZeroPadded((totalMs \div 1000) \div 60, 2) \o <<":">>
      \o ZeroPadded((totalMs \div 1000) % 60, 2)

\* The clock gains d. The fields running_ms and lost belong to the observer:
\* running_ms is the time that has passed while the stopwatch was running since
\* the last reset, lost is the part of it that passed between the two clock
\* readings of the visibilitychange handler.
Advance(w, d) ==
    [w EXCEPT !.now = @ + d,
              !.ticks = @ + (IF d > 0 THEN 1 ELSE 0),
              !.running_ms = @ + (IF w.is_running THEN d ELSE 0)]

stopInterval(w) == [w EXCEPT !.intervalId = None]

render(w) ==
    [w EXCEPT !.display =
                 formatTime(w.accumulatedMs
                            + Max2(IF w.startTimestamp # 0 THEN w.now - w.startTimestamp
                                   ELSE 0, 0)),
              !.rendered_at = w.now]

setRunning(w, running) == [w EXCEPT !.running_class = running]

\* start(): gap is what the clock gains before render() reads it
start(w, gap) ==
    IF w.startTimestamp # 0 THEN w
    ELSE render(Advance(setRunning([stopInterval(w) EXCEPT
                                      !.startTimestamp = w.now,
                                      !.intervalId = Some("interval")], TRUE), gap))

stop(w, gap) ==
    IF w.startTimestamp = 0 THEN w
    ELSE render(Advance(setRunning([stopInterval(w) EXCEPT
                                      !.accumulatedMs = @ + (w.now - w.startTimestamp),
                                      !.startTimestamp = 0], FALSE), gap))

reset(w) ==
    render(setRunning([stopInterval(w) EXCEPT !.accumulatedMs = 0,
                                              !.startTimestamp = 0], FALSE))

\* accumulatedMs += Date.now() - startTimestamp; startTimestamp = Date.now();
\* the second reading is `gap` later than the first
Restarted(w, gap) ==
    [Advance([w EXCEPT !.accumulatedMs = @ + (w.now - w.startTimestamp)], gap)
       EXCEPT !.startTimestamp = w.now + gap, !.lost = @ + gap]

\* the visibilitychange listener
onVisibilityChange(w, gap) ==
    render(IF ~w.visible /\ w.startTimestamp # 0 THEN Restarted(w, gap) ELSE w)

\* the toggle listener
onToggle(w, gap) == IF ~w.open THEN stop(w, gap) ELSE w

\* the page after the script has run: the details element is closed, the
\* display was rendered once
InitStopwatch ==
    /\ stopwatch \in {[pc |-> "ready", now |-> t, ticks |-> 0, startTimestamp |-> 0,
                       accumulatedMs |-> 0, intervalId |-> None,
                       display |-> formatTime(0), running_class |-> FALSE,
                       open |-> FALSE, visible |-> v, event |-> "load",
                       is_running |-> FALSE, running_ms |-> 0, lost |-> 0,
                       rendered_at |-> t]
                        : t \in LoadTimes, v \in BOOLEAN}
    /\ find = Idle /\ fetch = Idle /\ mvp = Idle /\ lineup = Idle /\ pdf = Idle
    /\ cmp = Idle /\ run = Idle

StopwatchOnly == UNCHANGED <<find, fetch, mvp, lineup, pdf, cmp, run>>

\* the gaps that the clock may still take
Gaps == IF stopwatch.pc = "ready" /\ stopwatch.ticks < MaxTicks THEN ReadGaps ELSE {0}

\* time passes between two events
ClockTick ==
    /\ stopwatch.pc = "ready"
    /\ stopwatch.ticks < MaxTicks
    /\ \E d \in ClockSteps : stopwatch' = [Advance(stopwatch, d) EXCEPT !.event = "tick"]
    /\ StopwatchOnly

\* a click on Start: a running period begins if none is under way
ClickStart ==
    /\ stopwatch.pc = "ready"
    /\ \E gap \in Gaps :
          stopwatch' = start([stopwatch EXCEPT !.event = "start", !.is_running = TRUE], gap)
    /\ StopwatchOnly

\* a click on Stopp: the running period ends
ClickStop ==
    /\ stopwatch.pc = "ready"
    /\ \E gap \in Gaps :
          stopwatch' = stop([stopwatch EXCEPT !.event = "stop", !.is_running = FALSE], gap)
    /\ StopwatchOnly

\* a click on Zuruecksetzen: the running period ends and the time is cleared
ClickReset ==
    /\ stopwatch.pc = "ready"
    /\ stopwatch' = reset([stopwatch EXCEPT !.event = "reset", !.is_running = FALSE,
                                            !.running_ms = 0, !.lost = 0])
    /\ StopwatchOnly

\* the panel is opened or closed; closing ends the running period
TogglePanel ==
    /\ stopwatch.pc = "ready"
    /\ \E gap \in Gaps :
          stopwatch' = onToggle([stopwatch EXCEPT
                                   !.event = "toggle", !.open = ~@,
                                   !.is_running = @ /\ ~stopwatch.open], gap)
    /\ StopwatchOnly

\* the page is hidden or shown again
VisibilityChange ==
    /\ stopwatch.pc = "ready"
    /\ \E gap \in Gaps :
          stopwatch' = onVisibilityChange([stopwatch EXCEPT !.event = "visibilitychange",
                                                            !.visible = ~@], gap)
    /\ StopwatchOnly

\* window.setInterval(render, 200) fires
IntervalFires ==
    /\ stopwatch.pc = "ready"
    /\ stopwatch.intervalId # None
    /\ stopwatch' = render([stopwatch EXCEPT !.event = "interval"])
    /\ StopwatchOnly

NextStopwatch ==
    \/ ClockTick
    \/ ClickStart
    \/ ClickStop
    \/ ClickReset
    \/ TogglePanel
    \/ VisibilityChange
    \/ IntervalFires

SpecStopwatch == InitStopwatch /\ [][NextStopwatch]_vars

(***************************************************************************)
(* What the stopwatch shows                                                *)
(***************************************************************************)
\* the variables of the script and what the page shows
ScriptState(w) ==
    <<w.startTimestamp, w.accumulatedMs, w.intervalId, w.display, w.running_class>>

\* the display was rendered at the present reading of the clock
JustRendered == stopwatch.pc = "ready" /\ stopwatch.rendered_at = stopwatch.now

ShowsRunningTime ==
    JustRendered => stopwatch.display = formatTime(stopwatch.running_ms)

\* Start while running and Stopp while stopped
RedundantClickChangesNothing ==
    (\/ stopwatch'.event = "start" /\ stopwatch.is_running
     \/ stopwatch'.event = "stop" /\ ~stopwatch.is_running)
    => ScriptState(stopwatch') = ScriptState(stopwatch)

\* C11: after any sequence of Start, Stopp and Zuruecksetzen clicks, toggles of
\* the panel and visibility changes under a non-decreasing clock the stopwatch
\* displays, in whole seconds as mm:ss, exactly the total time it has been
\* running since the last reset, where a running period begins at a Start click
\* while stopped and ends at the next Stopp click, reset or closing of the
\* panel; Start while running and Stopp while stopped change nothing, and a
\* visibility change neither loses nor double-counts running time.
C11_StopwatchShowsRunningTime ==
    [](stopwatch.pc = "ready" => ShowsRunningTime)
      /\ [][stopwatch.pc = "ready" => RedundantClickChangesNothing]_vars

\* What the script shows instead: the running time less what the clock gained
\* between the two readings of the visibilitychange handler.
C11_DisplayLacksOnlyReadGaps ==
    JustRendered => stopwatch.display = formatTime(stopwatch.running_ms - stopwatch.lost)

\* When the clock never moved between those two readings, the display is the
\* running time.
C11_ShowsRunningTimeWithoutReadGap ==
    JustRendered /\ stopwatch.lost = 0 => stopwatch.display = formatTime(stopwatch.running_ms)

C11_RedundantClicksChangeNothing ==
    [][stopwatch.pc = "ready" => RedundantClickChangesNothing]_vars

\* a running stopwatch whose page was hidden and that shows a minute or more
C11_Witness ==
    /\ JustRendered
    /\ stopwatch.is_running
    /\ ~stopwatch.visible
    /\ stopwatch.accumulatedMs > 0
    /\ stopwatch.running_ms >= 60000
    /\ stopwatch.lost = 0

(***************************************************************************)
(* The app file, the manifest and the service worker of a successful run   *)
(***************************************************************************)
\* the file that a relative URL of the manifest or of the service worker names:
\* both lie in the directory of the report
UrlTarget(url) == Parent(run.args.output) \o Tail(url)

AppFileWritten ==
    run.files[run.args.app_output] = [kind |-> "report", font_scale |-> "app_scale"]

MainReportWritten ==
    run.files[run.args.output] = [kind |-> "report", font_scale |-> "1"]

WrittenManifest == run.files[ManifestPath(run.args.output)]

WrittenServiceWorker == run.files[ServiceWorkerPath(run.args.output)]

OfflineUrlsNameAppFile ==
    \E i \in 1..Len(WrittenServiceWorker.offline_urls) :
        /\ i > 4
        /\ UrlTarget(WrittenServiceWorker.offline_urls[i]) = run.args.app_output

AppOutputConsistent ==
    /\ AppFileWritten <=> ~run.args.skip_app_output
    /\ AppFileWritten => UrlTarget(WrittenManifest.start_url) = run.args.app_output
    /\ ~AppFileWritten => UrlTarget(WrittenManifest.start_url) = run.args.output
    /\ AppFileWritten <=> OfflineUrlsNameAppFile
    /\ Len(WrittenServiceWorker.offline_urls) = (IF AppFileWritten THEN 5 ELSE 4)
    /\ UrlTarget(WrittenServiceWorker.fallback_url) = run.args.output
    /\ MainReportWritten

\* C12: in a successful run the app-optimised HTML file is written exactly when
\* --skip-app-output is not given; the start_url of the manifest and the offline
\* URL list of the service worker refer to the app file exactly when it was
\* written, otherwise start_url refers to the main report; the fallback URL of
\* the service worker always refers to the main report, which is written in
\* every successful run.
C12_AppOutputConsistent == run.pc = "done" => AppOutputConsistent

\* The same for an app file that lies in or below the directory of the report
\* and is not the report itself.
C12_AppOutputConsistentBelowOutputDir ==
    /\ run.pc = "done"
    /\ IsBelow(run.args.app_output, Parent(run.args.output))
    /\ run.args.app_output # run.args.output
    => AppOutputConsistent

\* a successful run that wrote the app file into a directory below the report's
C12_Witness ==
    /\ run.pc = "done"
    /\ ~run.args.skip_app_output
    /\ run.args.app_output = <<"docs", "app", "index.html">>
    /\ run.previous

====
